---- MODULE Spec2Model ----
(***************************************************************************)
(* Sensitive-analysis pipeline: Chunk -> Identify -> Validate -> Dedupe.   *)
(*                                                                         *)
(* Strings are sequences of one-character strings, so that lower-casing,   *)
(* trimming, slicing and joining are computed rather than assumed.         *)
(***************************************************************************)
EXTENDS Integers, Sequences, FiniteSets, TLC

VARIABLES
  \* analyzeSensitiveContent / Workflow.execute
  env,              \* process.env.NODE_ENV
  job,              \* the ProcessingJob handed to execute
  pc,               \* position of execute and of analyzeSensitiveContent
  nChunks,          \* chunks.length
  task,             \* state of the queue.add task of every chunk
  identified,       \* what the identifier returned for every chunk
  failure,          \* the error the identifier raised on every chunk
  validated,        \* what every task returned
  snaps,            \* per chunk, the partial objects read from the model's
                    \* stream so far: TRUE for one that carries entities
  rejectedBy,       \* the task whose rejection settled Promise.all, or 0
  identifiedCount,
  validatedCount,
  events,           \* what the onEvent sink has received, in order
  outcome,          \* what execute returned
  chunkerCalled,    \* createChunks has been invoked
  resolveOrder,     \* history: the chunk tasks in the order they resolved
  \* app.post('/api/analyze')
  closedAt,         \* events sent when the request closed, -1 while open
  \* IdentifierTool.getFormattedPolicies
  policyCache,      \* the Map from key to joined policy text
  fArg,             \* the policies argument of every call
  fpc,              \* where every call stands
  fText,            \* what every call returned
  formatCalls,      \* the arguments formatPolicies was invoked with
  \* ValidatorTool
  vEntity, vConfig, vResult, vpc,
  \* DeduperTool
  dEntities, dType, dCaseSensitive, dResult, dpc,
  \* ChunkerTool
  cText, cType, cOptions, cStart, cChunks, cpc, now,
  cRows,            \* parsedRows of chunkByColumn
  cCol,             \* the loop variable i of chunkByColumn
  cPrev,            \* what the previous createChunks call returned
  cCalls,           \* createChunks calls still to come on the same input
  \* parseCsv / serializeCsvRow
  csvRow, csvText, csvRows, csvpc

workflowVars == <<env, job, pc, nChunks, task, identified, failure, validated,
                  snaps, rejectedBy, identifiedCount, validatedCount, events,
                  outcome, chunkerCalled>>
historyVars == <<resolveOrder>>
routeVars == <<closedAt>>
identifierVars == <<policyCache, fArg, fpc, fText, formatCalls>>
pipelineVars == <<workflowVars, historyVars, routeVars, identifierVars>>
validatorVars == <<vEntity, vConfig, vResult, vpc>>
deduperVars == <<dEntities, dType, dCaseSensitive, dResult, dpc>>
chunkerVars == <<cText, cType, cOptions, cStart, cChunks, cpc, now,
                 cRows, cCol, cPrev, cCalls>>
csvVars == <<csvRow, csvText, csvRows, csvpc>>
vars == <<pipelineVars, validatorVars, deduperVars, chunkerVars, csvVars>>

\* ------------------------------------------------------------------ bounds
MaxChunks == 2        \* chunks of a job in the pipeline specification
MaxSnapshots == 1     \* partial-object snapshots streamed during one job
PoolChunks == 6       \* chunks of a job in the worker-pool specification
MaxEntities == 3      \* length of the list handed to removeDuplicates
MaxLen == 5           \* length of the text handed to chunkUnstructured
MaxSize == 3          \* largest chunkSize option tried
MaxOverlap == 4       \* largest overlap option tried
MaxClock == 1         \* latest reading of Date.now() during one run
MaxRowLen == 3        \* characters in the row handed to serializeCsvRow
MaxText == 3          \* length of an unstructured text handed to createChunks
MaxColumns == 3       \* columns of a table handed to createChunks
MaxColumnChunkSize == 2   \* largest columnChunkSize option tried
MaxColumnPasses == 4  \* passes through the column loop that are followed
MaxJsonNodes == 3     \* values (nested ones included) in a JSON document

\* --------------------------------------------------------- small utilities
Max(a, b) == IF a >= b THEN a ELSE b
Min(a, b) == IF a <= b THEN a ELSE b

SeqsUpTo(S, n) == UNION {[1..k -> S] : k \in 0..n}

RECURSIVE SumSeq(_)
SumSeq(s) == IF s = <<>> THEN 0 ELSE s[1] + SumSeq(Tail(s))

\* Array.prototype.filter: the elements of s at the indices in keep (those
\* for which the callback returned true), in order
Filter(s, keep) ==
  LET F[i \in 0..Len(s)] ==
        IF i = 0 THEN <<>>
        ELSE IF i \in keep THEN Append(F[i - 1], s[i]) ELSE F[i - 1]
  IN F[Len(s)]

\* Array.prototype.flatMap over a sequence of sequences
RECURSIVE Flatten(_)
Flatten(ss) == IF ss = <<>> THEN <<>> ELSE ss[1] \o Flatten(Tail(ss))

\* String.prototype.slice(from, to): 0-based, end-exclusive; a negative index
\* counts from the end and every index is clamped to [0, length]
SliceIndex(s, i) == IF i < 0 THEN Max(Len(s) + i, 0) ELSE Min(i, Len(s))
Slice(s, from, to) == SubSeq(s, SliceIndex(s, from) + 1, SliceIndex(s, to))

\* -------------------------------------------------------------- characters
\* the characters String.prototype.trim removes, among those of the model
Whitespace == {" ", "\t", "\n", "\r"}

\* String.prototype.toLowerCase on the letters of the model alphabet
LowerChar(c) == IF c = "A" THEN "a" ELSE IF c = "B" THEN "b" ELSE c
toLowerCase(s) == [i \in 1..Len(s) |-> LowerChar(s[i])]

\* String.prototype.trim
RECURSIVE TrimLeft(_)
TrimLeft(s) ==
  IF s # <<>> /\ s[1] \in Whitespace THEN TrimLeft(Tail(s)) ELSE s
RECURSIVE TrimRight(_)
TrimRight(s) ==
  IF s # <<>> /\ s[Len(s)] \in Whitespace
  THEN TrimRight(SubSeq(s, 1, Len(s) - 1)) ELSE s
trim(s) == TrimRight(TrimLeft(s))

\* Collation of the model alphabet used by localeCompare
CharRank(c) ==
  CASE c = "," -> 1 [] c = ":" -> 2 [] c = "1" -> 3 [] c = "2" -> 4
    [] c = "a" -> 5 [] c = "A" -> 6 [] c = "b" -> 7 [] c = "B" -> 8
    [] OTHER -> 9

RECURSIVE localeCompare(_, _)
localeCompare(a, b) ==
  IF a = <<>> /\ b = <<>> THEN 0
  ELSE IF a = <<>> THEN -1
  ELSE IF b = <<>> THEN 1
  ELSE IF CharRank(a[1]) < CharRank(b[1]) THEN -1
  ELSE IF CharRank(a[1]) > CharRank(b[1]) THEN 1
  ELSE localeCompare(Tail(a), Tail(b))

\* Array.prototype.join
RECURSIVE Join(_, _)
Join(ss, sep) ==
  IF ss = <<>> THEN <<>>
  ELSE IF Len(ss) = 1 THEN ss[1]
  ELSE ss[1] \o sep \o Join(Tail(ss), sep)

Digits == <<"0", "1", "2", "3", "4", "5", "6", "7", "8", "9">>
DigitValue(c) == (CHOOSE d \in 1..10 : Digits[d] = c) - 1
IsDigit(c) == \E d \in 1..10 : Digits[d] = c

\* a non-negative integer as a template literal or JSON.stringify prints it
RECURSIVE Decimal(_)
Decimal(n) ==
  IF n < 10 THEN <<Digits[n + 1]>>
  ELSE Decimal(n \div 10) \o <<Digits[(n % 10) + 1]>>

Spaces(n) == [i \in 1..n |-> " "]

\* Stable insertion of x into a list sorted by localeCompare
RECURSIVE InsertSorted(_, _)
InsertSorted(x, s) ==
  IF s = <<>> THEN <<x>>
  ELSE IF localeCompare(x, s[1]) < 0 THEN <<x>> \o s
  ELSE <<s[1]>> \o InsertSorted(x, Tail(s))

\* [...ranges].sort((a, b) => a.localeCompare(b))
RECURSIVE SortRanges(_)
SortRanges(s) ==
  IF s = <<>> THEN <<>>
  ELSE InsertSorted(s[Len(s)], SortRanges(SubSeq(s, 1, Len(s) - 1)))

\* ----------------------------------------------------------------- shapes
AnalysisTypeEnum == {"UNSTRUCTURED", "CSV", "JSON", "SPREADSHEET"}

\* An entity is a record; `fields` is the set of variant properties the
\* object carries ('text', 'ranges', 'sheetName', 'path'), `entity` is the
\* label, and an absent property has the value <<>>.  `itemType` is the
\* typeof of the elements of `ranges`; elements that are numbers are held
\* as their String() conversion.
UnstructuredEntity(label, conf, text) ==
  [entity |-> label, confidence |-> conf, fields |-> {"text"},
   itemType |-> "string",
   text |-> text, sheetName |-> <<>>, ranges |-> <<>>, path |-> <<>>]
SpreadsheetEntity(label, conf, sheet, ranges) ==
  [entity |-> label, confidence |-> conf, fields |-> {"ranges", "sheetName"},
   itemType |-> "string",
   text |-> <<>>, sheetName |-> sheet, ranges |-> ranges, path |-> <<>>]
StructuredEntity(label, conf, path) ==
  [entity |-> label, confidence |-> conf, fields |-> {"path"},
   itemType |-> "string",
   text |-> <<>>, sheetName |-> <<>>, ranges |-> <<>>, path |-> path]

\* ---------------------------------------------------------------- validator
DefaultMinimumConfidence == 7
StrictModeFloor == 8

ValidatorDefaultConfig ==
  [minimumConfidence |-> DefaultMinimumConfidence, enableStrictMode |-> FALSE]

isValidEntityOffByOne(entity, config) ==
  IF entity.confidence <= config.minimumConfidence THEN FALSE
  ELSE IF config.enableStrictMode
       THEN IF entity.entity = <<>> \/ Len(trim(entity.entity)) = 0 THEN FALSE
            ELSE IF entity.confidence < StrictModeFloor THEN FALSE
            ELSE TRUE
       ELSE TRUE

isValidEntity(entity, config) ==
  IF entity.confidence < config.minimumConfidence THEN FALSE
  ELSE IF config.enableStrictMode
       THEN IF entity.entity = <<>> \/ Len(trim(entity.entity)) = 0 THEN FALSE
            ELSE IF entity.confidence < StrictModeFloor THEN FALSE
            ELSE TRUE
       ELSE TRUE

validateEntities(entities, config) ==
  Filter(entities,
         {i \in 1..Len(entities) : isValidEntity(entities[i], config)})

\* ------------------------------------------------------------------ deduper
isUnstructuredSensitiveEntity(e) == "text" \in e.fields
isSpreadsheetSensitiveEntity(e) ==
  "ranges" \in e.fields /\ "sheetName" \in e.fields
isStructuredSensitiveEntity(e) ==
  "path" \in e.fields /\ "ranges" \notin e.fields

normalizeRangesUnsorted(ranges) == Join(ranges, <<",">>)

\* [...ranges].sort((a, b) => a.localeCompare(b)).join(',')
normalizeRanges(ranges) == Join(SortRanges(ranges), <<",">>)

UnstructuredKeyExact(e, caseSensitive) == e.text

\* caseSensitive ? entity.text : entity.text.toLowerCase()
UnstructuredKey(e, caseSensitive) ==
  IF caseSensitive THEN e.text ELSE toLowerCase(e.text)
\* the comparator calls a.localeCompare on an element of ranges: Array.sort
\* invokes it as soon as there are two elements, and a number has no such
\* method (TypeError)
normalizeRangesThrows(e) == e.itemType # "string" /\ Len(e.ranges) >= 2

SpreadsheetKey(e) == e.sheetName \o <<":">> \o normalizeRanges(e.ranges)
StructuredKey(e) == e.path

\* The Map of deduplicateByKey is a sequence of [key, value] entries in
\* insertion order; set() on a present key replaces the value in place.
MapHas(seen, key) == \E i \in 1..Len(seen) : seen[i].key = key
MapGet(seen, key) ==
  seen[CHOOSE i \in 1..Len(seen) : seen[i].key = key].value
MapSet(seen, key, value) ==
  IF MapHas(seen, key)
  THEN [i \in 1..Len(seen) |->
          IF seen[i].key = key THEN [key |-> key, value |-> value]
          ELSE seen[i]]
  ELSE Append(seen, [key |-> key, value |-> value])
MapValues(seen) == [i \in 1..Len(seen) |-> seen[i].value]

\* keys[i] is keyExtractor(entities[i])
deduplicateByKeyKeepLast(entities, keys) ==
  LET seen[i \in 0..Len(entities)] ==
        IF i = 0 THEN <<>>
        ELSE LET entity == entities[i]
                 key == keys[i]
                 prev == seen[i - 1]
             IN IF ~MapHas(prev, key)
                   \/ MapGet(prev, key).confidence <= entity.confidence
                THEN MapSet(prev, key, entity) ELSE prev
  IN MapValues(seen[Len(entities)])

deduplicateByKey(entities, keys) ==
  LET seen[i \in 0..Len(entities)] ==
        IF i = 0 THEN <<>>
        ELSE LET entity == entities[i]
                 key == keys[i]
                 prev == seen[i - 1]
             IN IF ~MapHas(prev, key)
                   \/ MapGet(prev, key).confidence < entity.confidence
                THEN MapSet(prev, key, entity) ELSE prev
  IN MapValues(seen[Len(entities)])

removeDuplicates(entities, analysisType, caseSensitive) ==
  LET unstructuredEntities ==
        Filter(entities, {i \in 1..Len(entities) :
                            isUnstructuredSensitiveEntity(entities[i])})
      spreadsheetEntities ==
        Filter(entities, {i \in 1..Len(entities) :
                            isSpreadsheetSensitiveEntity(entities[i])})
      structuredEntities ==
        Filter(entities, {i \in 1..Len(entities) :
                            isStructuredSensitiveEntity(entities[i])})
  IN
  CASE analysisType = "UNSTRUCTURED" ->
         deduplicateByKey(unstructuredEntities,
           [i \in 1..Len(unstructuredEntities) |->
              UnstructuredKey(unstructuredEntities[i], caseSensitive)])
    [] analysisType = "SPREADSHEET" ->
         deduplicateByKey(spreadsheetEntities,
           [i \in 1..Len(spreadsheetEntities) |->
              SpreadsheetKey(spreadsheetEntities[i])])
    [] analysisType = "JSON" ->
         deduplicateByKey(structuredEntities,
           [i \in 1..Len(structuredEntities) |->
              StructuredKey(structuredEntities[i])])
    [] analysisType = "CSV" ->
         deduplicateByKey(structuredEntities,
           [i \in 1..Len(structuredEntities) |->
              StructuredKey(structuredEntities[i])])
    [] OTHER -> entities

\* the promise of removeDuplicates rejects when a key extractor throws
removeDuplicatesThrows(entities, analysisType) ==
  /\ analysisType = "SPREADSHEET"
  /\ \E i \in 1..Len(entities) :
       /\ isSpreadsheetSensitiveEntity(entities[i])
       /\ normalizeRangesThrows(entities[i])

\* ------------------------------------------------------------------ chunker
DefaultChunkSize == 2000
DefaultOverlap == 200
DefaultColumnChunkSize == 4

\* const size = Math.max(1, Math.floor(chunkSize))
ClampSize(options) == Max(1, options.chunkSize)
\* const ov = Math.max(0, Math.floor(overlap))
ClampOverlap(options) == Max(0, options.overlap)

WindowStepUnclamped(options) == ClampSize(options) - ClampOverlap(options)
WindowStepNoOverlap(options) == ClampSize(options)

\* const step = Math.max(1, size - ov)
WindowStep(options) == Max(1, ClampSize(options) - ClampOverlap(options))

generateChunkIdNoIndex(time, index) ==
  <<"c", "h", "u", "n", "k", "_">> \o Decimal(time)

\* `chunk_${Date.now()}_${index}`
generateChunkId(time, index) ==
  <<"c", "h", "u", "n", "k", "_">> \o Decimal(time) \o <<"_">>
    \o Decimal(index)

\* ---------------------------------------------------------------------- CSV
Quote == "\""

\* content[i] for a 0-based i; reading past the end gives undefined
CharAt(content, i) ==
  IF i < Len(content) THEN content[i + 1] ELSE "undefined"

\* the while loop of parseCsv from position index on, and what follows it
RECURSIVE parseCsvLoop(_, _, _, _, _, _)
parseCsvLoop(content, index, currentField, currentRow, rows, inQuotes) ==
  IF index >= Len(content)
  THEN Append(rows, Append(currentRow, currentField))
  ELSE LET ch == CharAt(content, index)
       IN IF ch = Quote
          THEN IF inQuotes /\ CharAt(content, index + 1) = Quote
               THEN parseCsvLoop(content, index + 2,
                                 Append(currentField, Quote),
                                 currentRow, rows, inQuotes)
               ELSE parseCsvLoop(content, index + 1, currentField,
                                 currentRow, rows, ~inQuotes)
          ELSE IF ~inQuotes /\ ch = ","
          THEN parseCsvLoop(content, index + 1, <<>>,
                            Append(currentRow, currentField), rows, inQuotes)
          ELSE IF ~inQuotes /\ (ch = "\n" \/ ch = "\r")
          THEN parseCsvLoop(content,
                            IF ch = "\r" /\ CharAt(content, index + 1) = "\n"
                            THEN index + 2 ELSE index + 1,
                            <<>>, <<>>,
                            Append(rows, Append(currentRow, currentField)),
                            inQuotes)
          ELSE parseCsvLoop(content, index + 1, Append(currentField, ch),
                            currentRow, rows, inQuotes)

parseCsv(content) == parseCsvLoop(content, 0, <<>>, <<>>, <<>>, FALSE)

EscapeQuotesNone(val) == val

\* val.replace(/"/g, '""')
EscapeQuotes(val) ==
  Flatten([i \in 1..Len(val) |->
             IF val[i] = Quote THEN <<Quote, Quote>> ELSE <<val[i]>>])

\* the callback serializeCsvRow maps over the values
SerializeField(val) ==
  LET escaped == EscapeQuotes(val)
  IN IF \E i \in 1..Len(escaped) : escaped[i] \in {",", Quote, "\r", "\n"}
     THEN <<Quote>> \o escaped \o <<Quote>>
     ELSE escaped

serializeCsvRow(vals) ==
  Join([i \in 1..Len(vals) |-> SerializeField(vals[i])], <<",">>)

\* --------------------------------------------------------------------- JSON
\* A JsonValue is a record tagged by t: null, boolean, number, string,
\* array (items) or object (entries: [key, value] in insertion order).
JNull == [t |-> "null"]
JBool(b) == [t |-> "boolean", b |-> b]
JNum(n) == [t |-> "number", n |-> n]
JStr(str) == [t |-> "string", s |-> str]
JArr(items) == [t |-> "array", items |-> items]
JObj(entries) == [t |-> "object", entries |-> entries]

\* JSON.stringify(v, null, space), the text that follows an indentation of
\* indent spaces; space = 0 is JSON.stringify(v)
RECURSIVE JsonStringify(_, _, _)
JsonStringify(v, space, indent) ==
  LET inner == indent + space
      open == IF space = 0 THEN <<>> ELSE <<"\n">> \o Spaces(inner)
      sep == <<",">> \o open
      close == IF space = 0 THEN <<>> ELSE <<"\n">> \o Spaces(indent)
      colon == IF space = 0 THEN <<":">> ELSE <<":", " ">>
  IN CASE v.t = "null" -> <<"n", "u", "l", "l">>
       [] v.t = "boolean" -> IF v.b THEN <<"t", "r", "u", "e">>
                             ELSE <<"f", "a", "l", "s", "e">>
       [] v.t = "number" -> Decimal(v.n)
       [] v.t = "string" -> <<Quote>> \o v.s \o <<Quote>>
       [] v.t = "array" ->
            IF v.items = <<>> THEN <<"[", "]">>
            ELSE <<"[">> \o open
                 \o Join([i \in 1..Len(v.items) |->
                            JsonStringify(v.items[i], space, inner)], sep)
                 \o close \o <<"]">>
       [] v.t = "object" ->
            IF v.entries = <<>> THEN <<"{", "}">>
            ELSE <<"{">> \o open
                 \o Join([i \in 1..Len(v.entries) |->
                            <<Quote>> \o v.entries[i].key \o <<Quote>> \o colon
                            \o JsonStringify(v.entries[i].value, space, inner)],
                         sep)
                 \o close \o <<"}">>

\* JSON.parse, by recursive descent. A parse step returns what it read and
\* the 1-based position after it, or ok = FALSE for a SyntaxError.
JsonWhitespace == {" ", "\t", "\n", "\r"}
ParseFail == [ok |-> FALSE, value |-> JNull, next |-> 0]
Parsed(v, next) == [ok |-> TRUE, value |-> v, next |-> next]
At(str, i) == IF i >= 1 /\ i <= Len(str) THEN str[i] ELSE "undefined"
StartsWith(str, i, word) ==
  /\ i + Len(word) - 1 <= Len(str)
  /\ SubSeq(str, i, i + Len(word) - 1) = word

RECURSIVE SkipWhitespace(_, _)
SkipWhitespace(str, i) ==
  IF At(str, i) \in JsonWhitespace THEN SkipWhitespace(str, i + 1) ELSE i

\* the digits of a number from position i on; n is the value read so far
RECURSIVE ParseDigits(_, _, _)
ParseDigits(str, i, n) ==
  IF IsDigit(At(str, i))
  THEN ParseDigits(str, i + 1, 10 * n + DigitValue(At(str, i)))
  ELSE Parsed(JNum(n), i)

\* the characters of a string up to its closing quote; i is after the
\* opening quote. A backslash escape or a control character is not read.
RECURSIVE ParseString(_, _, _)
ParseString(str, i, chars) ==
  LET c == At(str, i)
  IN IF c = Quote THEN Parsed(JStr(chars), i + 1)
     ELSE IF c \in {"undefined", "\\", "\n", "\r", "\t"} THEN ParseFail
     ELSE ParseString(str, i + 1, Append(chars, c))

RECURSIVE ParseValue(_, _)
RECURSIVE ParseArray(_, _, _)
RECURSIVE ParseObject(_, _, _)

ParseValue(str, i0) ==
  LET i == SkipWhitespace(str, i0)
      c == At(str, i)
  IN IF StartsWith(str, i, <<"n", "u", "l", "l">>) THEN Parsed(JNull, i + 4)
     ELSE IF StartsWith(str, i, <<"t", "r", "u", "e">>)
     THEN Parsed(JBool(TRUE), i + 4)
     ELSE IF StartsWith(str, i, <<"f", "a", "l", "s", "e">>)
     THEN Parsed(JBool(FALSE), i + 5)
     ELSE IF c = "0" THEN Parsed(JNum(0), i + 1)
     ELSE IF IsDigit(c) THEN ParseDigits(str, i, 0)
     ELSE IF c = Quote THEN ParseString(str, i + 1, <<>>)
     ELSE IF c = "[" THEN ParseArray(str, i + 1, <<>>)
     ELSE IF c = "{" THEN ParseObject(str, i + 1, <<>>)
     ELSE ParseFail

\* the elements of an array; i is after '[' or after a comma
ParseArray(str, i0, items) ==
  LET i == SkipWhitespace(str, i0)
  IN IF At(str, i) = "]" /\ items = <<>> THEN Parsed(JArr(<<>>), i + 1)
     ELSE LET r == ParseValue(str, i)
              k == SkipWhitespace(str, r.next)
          IN IF ~r.ok THEN ParseFail
             ELSE IF At(str, k) = ","
             THEN ParseArray(str, k + 1, Append(items, r.value))
             ELSE IF At(str, k) = "]"
             THEN Parsed(JArr(Append(items, r.value)), k + 1)
             ELSE ParseFail

\* the properties of an object; i is after '{' or after a comma. A repeated
\* key keeps its place and takes the later value.
ParseObject(str, i0, entries) ==
  LET i == SkipWhitespace(str, i0)
  IN IF At(str, i) = "}" /\ entries = <<>> THEN Parsed(JObj(<<>>), i + 1)
     ELSE IF At(str, i) # Quote THEN ParseFail
     ELSE LET key == ParseString(str, i + 1, <<>>)
              colon == SkipWhitespace(str, key.next)
              r == ParseValue(str, colon + 1)
              k == SkipWhitespace(str, r.next)
              added == MapSet(entries, key.value.s, r.value)
          IN IF ~key.ok \/ At(str, colon) # ":" THEN ParseFail
             ELSE IF ~r.ok THEN ParseFail
             ELSE IF At(str, k) = ","
             THEN ParseObject(str, k + 1, added)
             ELSE IF At(str, k) = "}" THEN Parsed(JObj(added), k + 1)
             ELSE ParseFail

\* JSON.parse(text): ok = FALSE when it throws a SyntaxError
JsonParse(text) ==
  LET r == ParseValue(text, 1)
  IN IF r.ok /\ SkipWhitespace(text, r.next) > Len(text) THEN r
     ELSE ParseFail

\* what recursiveJsonChunk pushes: the chunk without its id, whose
\* timestamp is read when the chunk is pushed; index is chunks.length
Pushed(chunks, text, chunkSize) ==
  Append(chunks, [index |-> Len(chunks), text |-> text,
                  offset |-> Len(chunks) * chunkSize])

RECURSIVE recursiveJsonChunk(_, _, _, _)
recursiveJsonChunk(obj, currentPath, chunkSize, chunks) ==
  CASE obj.t = "null" -> chunks
    [] obj.t = "array" ->
         LET each[i \in 0..Len(obj.items)] ==
               IF i = 0 THEN chunks
               ELSE LET index == <<"[">> \o Decimal(i - 1) \o <<"]">>
                        newPath == IF currentPath # <<>>
                                   THEN currentPath \o index ELSE index
                    IN recursiveJsonChunk(obj.items[i], newPath, chunkSize,
                                          each[i - 1])
         IN each[Len(obj.items)]
    [] obj.t = "object" ->
         LET objStr == JsonStringify(obj, 2, 0)
             each[i \in 0..Len(obj.entries)] ==
               IF i = 0 THEN chunks
               ELSE LET key == obj.entries[i].key
                        newPath == IF currentPath # <<>>
                                   THEN currentPath \o <<".">> \o key ELSE key
                    IN recursiveJsonChunk(obj.entries[i].value, newPath,
                                          chunkSize, each[i - 1])
         IN IF Len(objStr) <= chunkSize
            THEN Pushed(chunks, objStr, chunkSize)
            ELSE each[Len(obj.entries)]
    [] OTHER ->
         LET primitiveStr ==
               IF currentPath # <<>>
               THEN <<Quote>> \o currentPath \o <<Quote, ":", " ">>
                      \o JsonStringify(obj, 0, 0)
               ELSE JsonStringify(obj, 0, 0)
         IN Pushed(chunks, primitiveStr, chunkSize)

\* const header = parsedRows[0] ?? []
HeaderOf(parsedRows) == IF parsedRows = <<>> THEN <<>> ELSE parsedRows[1]

IsBlankHeaderNever(header) == Len(header) = 0

\* header.length === 0 || header.every((h) => h.trim() === '')
IsBlankHeader(header) ==
  Len(header) = 0 \/ \A h \in 1..Len(header) : trim(header[h]) = <<>>

\* the chunk text of the column group that starts at column i
ColumnChunkText(parsedRows, i, columnChunkSize) ==
  LET columns == Slice(HeaderOf(parsedRows), i, i + columnChunkSize)
      rows == [r \in 1..(Len(parsedRows) - 1) |->
                 serializeCsvRow(Slice(parsedRows[r + 1], i,
                                       i + columnChunkSize))]
  IN Join(<<serializeCsvRow(columns)>> \o rows, <<"\n">>)

ColumnStepOne(options) == 1

\* i += columnChunkSize
ColumnStep(options) == options.columnChunkSize

\* --------------------------------------------------------------- identifier
\* the kinds of error raised inside the try block of
\* identifySensitiveEntities, told apart by what the catch block tests:
\*   "apiKey"      an Error whose message includes 'API key'
\*   "recoverable" an Error whose message includes 'Invalid JSON response',
\*                 'Policy loading failed' or 'Model generation failed'
\*   "unexpected"  any other Error, or a thrown value that is no Error
\*                 (the catch block treats the two alike)
\* Array.prototype.sort() without a comparator orders strings by code unit
CodeUnit(c) == CASE c = "p" -> 112 [] c = "q" -> 113 [] OTHER -> 0

RECURSIVE CodeUnitsBefore(_, _)
CodeUnitsBefore(a, b) ==
  IF b = <<>> THEN FALSE
  ELSE IF a = <<>> THEN TRUE
  ELSE IF CodeUnit(a[1]) # CodeUnit(b[1]) THEN CodeUnit(a[1]) < CodeUnit(b[1])
  ELSE CodeUnitsBefore(Tail(a), Tail(b))

RECURSIVE InsertByCodeUnits(_, _)
InsertByCodeUnits(x, s) ==
  IF s = <<>> THEN <<x>>
  ELSE IF CodeUnitsBefore(x, s[1]) THEN <<x>> \o s
  ELSE <<s[1]>> \o InsertByCodeUnits(x, Tail(s))

RECURSIVE SortIds(_)
SortIds(ids) ==
  IF ids = <<>> THEN <<>>
  ELSE InsertByCodeUnits(ids[Len(ids)], SortIds(SubSeq(ids, 1, Len(ids) - 1)))

\* JSON.stringify(policies.map((p) => p.id).sort())
PolicyCacheKey(policies) ==
  LET ids == SortIds([i \in 1..Len(policies) |-> policies[i].id])
  IN JsonStringify(JArr([i \in 1..Len(ids) |-> JStr(ids[i])]), 0, 0)

\* `${policyData.name} Privacy Policy. Documents: ` followed by the joined
\* documents (the policies of the model carry none), one string per policy
PolicyHeading ==
  <<" ", "P", "r", "i", "v", "a", "c", "y", " ", "P", "o", "l", "i", "c",
    "y", ".", " ", "D", "o", "c", "u", "m", "e", "n", "t", "s", ":", " ">>
formatPolicies(policies) ==
  [i \in 1..Len(policies) |-> policies[i].name \o PolicyHeading]

ErrorKinds == {"apiKey", "recoverable", "unexpected"}

IdentifierCatchAlwaysRethrow(kind, nodeEnv) == "rethrow"

IdentifierCatchAlwaysEmpty(kind, nodeEnv) ==
  IF kind = "apiKey" THEN "rethrow" ELSE "empty"

\* the catch block: "rethrow" fails the call, "empty" returns []
IdentifierCatch(kind, nodeEnv) ==
  IF kind = "apiKey" THEN "rethrow"
  ELSE IF nodeEnv = "test"
       THEN IF kind = "recoverable" THEN "empty" ELSE "rethrow"
       ELSE "empty"

\* ----------------------------------------------------------------- workflow
ConcurrencyOneMore == 5 + 1

\* new PQueue({ concurrency: 5 })
Concurrency == 5

\* TriggerSchema.parse(job) succeeds; id and name are z.string()
TriggerSchema(j) ==
  /\ Len(j.content) >= 1
  /\ j.analysisType \in AnalysisTypeEnum
  /\ Len(j.policies) >= 1

AddCountOverwrite(count, n) == n

\* count += n
AddCount(count, n) == count + n

\* executeValidationStep, with new ValidatorTool({ minimumConfidence: 7 })
executeValidationStep(entities) ==
  IF Len(entities) = 0 THEN <<>>
  ELSE validateEntities(entities, ValidatorDefaultConfig)

\* executeDeduplicationStep, with new DeduperTool()
executeDeduplicationStep(entities, analysisType) ==
  IF Len(entities) = 0 THEN <<>>
  ELSE removeDuplicates(entities, analysisType, FALSE)

\* tasks started by the queue and not yet settled
InFlight == {i \in 1..nChunks : task[i] \in {"identifying", "validating"}}

Event(type, chunkId, n) == [type |-> type, chunkId |-> chunkId, n |-> n]

\* ------------------------------------------------- components left unused
IdentifierIdle ==
  /\ policyCache = <<>> /\ fArg = <<>> /\ fpc = <<>> /\ fText = <<>>
  /\ formatCalls = <<>>
PipelineIdle ==
  /\ env = "test" /\ job = <<>> /\ pc = "idle" /\ nChunks = 0
  /\ task = <<>> /\ identified = <<>> /\ failure = <<>> /\ validated = <<>>
  /\ snaps = <<>> /\ rejectedBy = 0
  /\ identifiedCount = 0 /\ validatedCount = 0
  /\ events = <<>> /\ outcome = [status |-> "none"] /\ chunkerCalled = FALSE
  /\ resolveOrder = <<>>
  /\ closedAt = -1
  /\ IdentifierIdle
ValidatorIdle ==
  /\ vEntity = <<>> /\ vConfig = <<>> /\ vResult = FALSE /\ vpc = "idle"
DeduperIdle ==
  /\ dEntities = <<>> /\ dType = "UNSTRUCTURED" /\ dCaseSensitive = FALSE
  /\ dResult = <<>> /\ dpc = "idle"
ChunkerIdle ==
  /\ cText = <<>> /\ cType = "UNSTRUCTURED" /\ cOptions = <<>> /\ cStart = 0
  /\ cChunks = <<>> /\ cpc = "idle" /\ now = 0
  /\ cRows = <<>> /\ cCol = 0 /\ cPrev = <<>> /\ cCalls = 0
CsvIdle ==
  /\ csvRow = <<>> /\ csvText = <<>> /\ csvRows = <<>> /\ csvpc = "idle"

\* ------------------------------------------- ValidatorTool.validateSingle
Labels == {<<>>, <<" ">>, <<" ", "\t">>, <<"x">>, <<" ", "x", " ">>}
Confidences == 0..10

InitValidator ==
  /\ vEntity \in {UnstructuredEntity(l, c, <<"a">>) :
                    l \in Labels, c \in Confidences}
  /\ vConfig \in [minimumConfidence : {0, 5, 7, 8, 9, 10},
                  enableStrictMode : BOOLEAN]
  /\ vResult = FALSE
  /\ vpc = "call"
  /\ PipelineIdle /\ DeduperIdle /\ ChunkerIdle /\ CsvIdle

validateSingle ==
  /\ vpc = "call"
  /\ vResult' = isValidEntity(vEntity, vConfig)
  /\ vpc' = "done"
  /\ UNCHANGED <<vEntity, vConfig, pipelineVars, deduperVars, chunkerVars,
               csvVars>>

NextValidator == validateSingle
SpecValidator == InitValidator /\ [][NextValidator]_vars

\* -------------------------------------------- DeduperTool.removeDuplicates
A1 == <<"A", "1">>
B1 == <<"B", "1">>

UnstructuredUniverse ==
  {UnstructuredEntity(<<"x">>, 8, <<"a">>),
   UnstructuredEntity(<<"x">>, 9, <<"a">>),
   UnstructuredEntity(<<"y">>, 9, <<"a">>),
   UnstructuredEntity(<<"x">>, 9, <<"A">>),
   UnstructuredEntity(<<"x">>, 8, <<"b">>)}
SpreadsheetUniverse ==
  {SpreadsheetEntity(<<"x">>, 8, <<"a">>, <<A1, B1>>),
   SpreadsheetEntity(<<"x">>, 9, <<"a">>, <<B1, A1>>),
   SpreadsheetEntity(<<"y">>, 9, <<"a">>, <<A1, B1>>),
   SpreadsheetEntity(<<"x">>, 8, <<"a">>, <<A1>>),
   SpreadsheetEntity(<<"x">>, 8, <<"b">>, <<A1>>)}
StructuredUniverse ==
  {StructuredEntity(<<"x">>, 8, <<"a">>),
   StructuredEntity(<<"x">>, 9, <<"a">>),
   StructuredEntity(<<"y">>, 9, <<"a">>),
   StructuredEntity(<<"x">>, 8, <<"b">>)}
\* an object carrying both a path and ranges: no structured entity
HybridEntity ==
  [entity |-> <<"x">>, confidence |-> 9,
   fields |-> {"path", "ranges", "sheetName"},
   itemType |-> "string",
   text |-> <<>>, sheetName |-> <<"a">>, ranges |-> <<A1>>, path |-> <<"a">>]

\* { ranges: [2, 1], sheetName: 'a' }: an array, but not of strings
NumberRangesEntity ==
  [entity |-> <<"x">>, confidence |-> 9,
   fields |-> {"ranges", "sheetName"}, itemType |-> "number",
   text |-> <<>>, sheetName |-> <<"a">>,
   ranges |-> <<Decimal(2), Decimal(1)>>, path |-> <<>>]

\* the entities tried for a shape: its own variant and one foreign object
Universe(type) ==
  CASE type = "UNSTRUCTURED" ->
         UnstructuredUniverse \cup {StructuredEntity(<<"x">>, 9, <<"a">>)}
    [] type = "SPREADSHEET" ->
         SpreadsheetUniverse \cup {UnstructuredEntity(<<"x">>, 9, <<"a">>),
                                   NumberRangesEntity}
    [] type \in {"JSON", "CSV"} -> StructuredUniverse \cup {HybridEntity}
    [] OTHER -> {UnstructuredEntity(<<"x">>, 8, <<"a">>),
                 UnstructuredEntity(<<"x">>, 9, <<"a">>),
                 StructuredEntity(<<"x">>, 9, <<"a">>)}

InitDeduper ==
  /\ dType \in AnalysisTypeEnum \cup {"UNSUPPORTED"}
  /\ dCaseSensitive \in BOOLEAN
  /\ dEntities \in SeqsUpTo(Universe(dType), MaxEntities)
  /\ dResult = <<>>
  /\ dpc = "call"
  /\ PipelineIdle /\ ValidatorIdle /\ ChunkerIdle /\ CsvIdle

RemoveDuplicates ==
  /\ dpc = "call"
  /\ IF removeDuplicatesThrows(dEntities, dType)
     THEN dpc' = "threw" /\ dResult' = dResult
     ELSE /\ dResult' = removeDuplicates(dEntities, dType, dCaseSensitive)
          /\ dpc' = "done"
  /\ UNCHANGED <<dEntities, dType, dCaseSensitive,
                 pipelineVars, validatorVars, chunkerVars,
                 csvVars>>

NextDeduper == RemoveDuplicates
SpecDeduper == InitDeduper /\ [][NextDeduper]_vars


\* ------------------------------------------------------------ C8, validator
IsBlank(label) == \A i \in 1..Len(label) : label[i] \in Whitespace

\* C8: an entity is valid exactly when its confidence is at least
\* minimumConfidence and, in strict mode, its label is not blank and its
\* confidence is at least 8; the strict floor is max(minimumConfidence, 8).
C8_ValidExactlyWhen ==
  vpc = "done" =>
    /\ vResult =
         (/\ vEntity.confidence >= vConfig.minimumConfidence
          /\ vConfig.enableStrictMode =>
               (~IsBlank(vEntity.entity) /\ vEntity.confidence >= 8))
    /\ (vConfig.enableStrictMode /\ ~IsBlank(vEntity.entity)) =>
         (vResult = (vEntity.confidence >= Max(vConfig.minimumConfidence, 8)))

C8_Witness ==
  /\ vpc = "done"
  /\ vConfig.enableStrictMode
  /\ vEntity.confidence = vConfig.minimumConfidence
  /\ vResult = TRUE

\* ------------------------------------------------------------- C7, deduper
\* the entities removeDuplicates looks at for a shape, and their keys
MatchesType(e, type) ==
  CASE type = "UNSTRUCTURED" -> isUnstructuredSensitiveEntity(e)
    [] type = "SPREADSHEET" -> isSpreadsheetSensitiveEntity(e)
    [] OTHER -> isStructuredSensitiveEntity(e)
KeyOf(e, type, caseSensitive) ==
  CASE type = "UNSTRUCTURED" -> UnstructuredKey(e, caseSensitive)
    [] type = "SPREADSHEET" -> SpreadsheetKey(e)
    [] OTHER -> StructuredKey(e)

\* index in m of the entity that must survive for the key of m[i]: the
\* first one among those of highest confidence
Survivor(m, i, type, cs) ==
  LET same == {j \in 1..Len(m) : KeyOf(m[j], type, cs) = KeyOf(m[i], type, cs)}
      best == {j \in same : \A k \in same : m[k].confidence <= m[j].confidence}
  IN CHOOSE j \in best : \A k \in best : j <= k
FirstOfKey(m, i, type, cs) ==
  CHOOSE j \in 1..Len(m) :
    /\ KeyOf(m[j], type, cs) = KeyOf(m[i], type, cs)
    /\ \A k \in 1..(j - 1) : KeyOf(m[k], type, cs) # KeyOf(m[i], type, cs)

\* the list the claim describes: one survivor per key, keys in first-seen order
ExpectedDedup(m, type, cs) ==
  LET firsts == Filter([i \in 1..Len(m) |-> i],
                       {i \in 1..Len(m) : FirstOfKey(m, i, type, cs) = i})
  IN [n \in 1..Len(firsts) |-> m[Survivor(m, firsts[n], type, cs)]]

\* C7: removeDuplicates returns, per distinct identity key among the
\* entities matching the shape, exactly the entity of highest confidence
\* (the first one among equals), in the order the keys first appear.
C7_HighestConfidenceFirstSeen ==
  (dpc = "done" /\ dType \in AnalysisTypeEnum) =>
    LET m == Filter(dEntities, {i \in 1..Len(dEntities) :
                                  MatchesType(dEntities[i], dType)})
    IN /\ Len(dResult) = Cardinality({KeyOf(m[i], dType, dCaseSensitive) :
                                        i \in 1..Len(m)})
       /\ dResult = ExpectedDedup(m, dType, dCaseSensitive)

C7_Witness ==
  /\ dpc = "done"
  /\ dType = "UNSTRUCTURED"
  /\ ~dCaseSensitive
  /\ Len(dEntities) = 3
  /\ dEntities[1] = UnstructuredEntity(<<"x">>, 8, <<"b">>)
  /\ dEntities[2] = UnstructuredEntity(<<"x">>, 9, <<"A">>)
  /\ dEntities[3] = UnstructuredEntity(<<"y">>, 9, <<"a">>)
  /\ dResult = <<dEntities[1], dEntities[2]>>

\* ------------------------------------- serializeCsvRow, then parseCsv
CsvAlphabet == {"a", ",", Quote, "\n", "\r"}

\* the row made of the pieces of s between the cut positions
SplitAt(s, cuts) ==
  [k \in 1..(Len(cuts) + 1) |->
     SubSeq(s, (IF k = 1 THEN 0 ELSE cuts[k - 1]) + 1,
               IF k = Len(cuts) + 1 THEN Len(s) ELSE cuts[k])]

\* every row of at least one field whose fields hold MaxRowLen characters
\* in all
InitCsv ==
  /\ \E s \in SeqsUpTo(CsvAlphabet, MaxRowLen) :
       \E cuts \in SeqsUpTo(0..MaxRowLen, MaxRowLen - 1) :
         /\ \A k \in 1..Len(cuts) :
              /\ cuts[k] <= Len(s)
              /\ k > 1 => cuts[k - 1] <= cuts[k]
         /\ csvRow = SplitAt(s, cuts)
  /\ csvText = <<>>
  /\ csvRows = <<>>
  /\ csvpc = "serialize"
  /\ PipelineIdle /\ ValidatorIdle /\ DeduperIdle /\ ChunkerIdle

SerializeRow ==
  /\ csvpc = "serialize"
  /\ csvText' = serializeCsvRow(csvRow)
  /\ csvpc' = "parse"
  /\ UNCHANGED <<csvRow, csvRows,
                 pipelineVars, validatorVars, deduperVars, chunkerVars>>

ParseText ==
  /\ csvpc = "parse"
  /\ csvRows' = parseCsv(csvText)
  /\ csvpc' = "done"
  /\ UNCHANGED <<csvRow, csvText,
                 pipelineVars, validatorVars, deduperVars, chunkerVars>>

NextCsv == SerializeRow \/ ParseText
SpecCsv == InitCsv /\ [][NextCsv]_vars

\* C16: parsing the serialization of a non-empty row of string fields, which
\* may hold commas, double quotes, CR and LF, gives back exactly that one
\* row, field by field.
C16_CsvRoundTrip ==
  csvpc = "done" => csvRows = <<csvRow>>

C16_Witness ==
  /\ csvpc = "done"
  /\ csvRow = <<<<",", Quote>>, <<"\r">>>>
  /\ csvText = <<Quote, ",", Quote, Quote, Quote, ",", Quote, "\r", Quote>>
  /\ csvRows = <<csvRow>>

\* ------------------------------------------- C19, C20: identity keys
CasePairs == {{"a", "A"}, {"b", "B"}}
DifferOnlyInCase(a, b) ==
  /\ Len(a) = Len(b)
  /\ a # b
  /\ \A i \in 1..Len(a) : a[i] = b[i] \/ {a[i], b[i]} \in CasePairs

\* C19: two unstructured entities whose excerpts differ only in letter case
\* collapse to one when caseSensitive is false, the survivor being the one
\* of higher confidence, and remain two when caseSensitive is true.
C19_CaseFolding ==
  (/\ dpc = "done" /\ dType = "UNSTRUCTURED" /\ Len(dEntities) = 2
   /\ isUnstructuredSensitiveEntity(dEntities[1])
   /\ isUnstructuredSensitiveEntity(dEntities[2])
   /\ DifferOnlyInCase(dEntities[1].text, dEntities[2].text)) =>
    IF dCaseSensitive
    THEN dResult = dEntities
    ELSE /\ Len(dResult) = 1
         /\ dResult[1] \in {dEntities[1], dEntities[2]}
         /\ dResult[1].confidence >= dEntities[1].confidence
         /\ dResult[1].confidence >= dEntities[2].confidence

C19_Witness ==
  /\ dpc = "done" /\ dType = "UNSTRUCTURED" /\ ~dCaseSensitive
  /\ dEntities = <<UnstructuredEntity(<<"x">>, 8, <<"a">>),
                   UnstructuredEntity(<<"x">>, 9, <<"A">>)>>
  /\ dResult = <<UnstructuredEntity(<<"x">>, 9, <<"A">>)>>

\* the ranges of a as a bag: how often every cell reference occurs
Occurrences(r, x) == Cardinality({i \in 1..Len(r) : r[i] = x})
IsPermutation(a, b) ==
  /\ Len(a) = Len(b)
  /\ \A i \in 1..Len(a) : Occurrences(a, a[i]) = Occurrences(b, a[i])

\* C20: two spreadsheet entities on the same sheet whose range lists are
\* permutations of one another are the same entity: at most one of them is
\* returned.
C20_RangeOrderIgnored ==
  (dpc = "done" /\ dType = "SPREADSHEET") =>
    \A i, j \in 1..Len(dEntities) :
      (/\ i < j
       /\ isSpreadsheetSensitiveEntity(dEntities[i])
       /\ isSpreadsheetSensitiveEntity(dEntities[j])
       /\ dEntities[i].sheetName = dEntities[j].sheetName
       /\ IsPermutation(dEntities[i].ranges, dEntities[j].ranges)) =>
        Cardinality({k \in 1..Len(dResult) :
                       /\ dResult[k].sheetName = dEntities[i].sheetName
                       /\ IsPermutation(dResult[k].ranges,
                                        dEntities[i].ranges)}) = 1

C20_Witness ==
  /\ dpc = "done" /\ dType = "SPREADSHEET"
  /\ dEntities = <<SpreadsheetEntity(<<"x">>, 8, <<"a">>, <<A1, B1>>),
                   SpreadsheetEntity(<<"x">>, 9, <<"a">>, <<B1, A1>>)>>
  /\ dResult = <<SpreadsheetEntity(<<"x">>, 9, <<"a">>, <<B1, A1>>)>>

\* ------------------------------------------------------------ C21, deduper
\* the variant fields the interfaces of types.ts declare for a shape
WellShaped(e, type) ==
  CASE type = "UNSTRUCTURED" -> "text" \in e.fields
    [] type = "SPREADSHEET" ->
         /\ {"ranges", "sheetName"} \subseteq e.fields
         /\ e.itemType = "string"
    [] OTHER -> "path" \in e.fields

\* C21: removeDuplicates never fails on ill-shaped input: an entity whose
\* variant fields do not match the requested shape is left out of the
\* result without an error, and a shape outside the enum returns the input
\* list unchanged.
C21_NeverFailsOnIllShapedInput ==
  /\ dpc # "threw"
  /\ dpc = "done" =>
       IF dType \in AnalysisTypeEnum
       THEN \A k \in 1..Len(dResult) : WellShaped(dResult[k], dType)
       ELSE dResult = dEntities


\* ------------------------------------------ ChunkerTool.chunkUnstructured
Alphabet == {"a", "b"}

InitChunker ==
  /\ cText \in SeqsUpTo(Alphabet, MaxLen)
  /\ cType = "UNSTRUCTURED"
  /\ cOptions \in [chunkSize : (-1)..MaxSize, overlap : (-1)..MaxOverlap]
  /\ cStart = 0
  /\ cChunks = <<>>
  /\ cpc = "call"
  /\ now \in 0..MaxClock
  /\ cRows = <<>> /\ cCol = 0 /\ cPrev = <<>> /\ cCalls = 0
  /\ PipelineIdle /\ ValidatorIdle /\ DeduperIdle /\ CsvIdle

ChunkEmptyNone ==
  /\ cpc = "call"
  /\ Len(cText) = 0
  /\ cChunks' = <<>>
  /\ cpc' = "done"
  /\ UNCHANGED <<cText, cType, cOptions, cStart, now, cRows, cCol, cPrev,
                 cCalls, pipelineVars, validatorVars, deduperVars, csvVars>>

\* if (text.length === 0): one empty chunk
ChunkEmpty ==
  /\ cpc = "call"
  /\ Len(cText) = 0
  /\ \E t \in now..MaxClock :
       /\ now' = t
       /\ cChunks' = <<[id |-> generateChunkId(t, 0), text |-> <<>>,
                        offset |-> 0, analysisType |-> cType]>>
  /\ cpc' = "done"
  /\ UNCHANGED <<cText, cType, cOptions, cStart, cRows, cCol, cPrev, cCalls,
                 pipelineVars, validatorVars, deduperVars, csvVars>>

\* one pass through the body of while (start < text.length), with the
\* break and the loop test that follow it
ChunkWindow ==
  /\ cpc \in {"call", "loop"}
  /\ cStart < Len(cText)
  /\ LET end == Min(Len(cText), cStart + ClampSize(cOptions))
         chunkText == Slice(cText, cStart, end)
         next == cStart + WindowStep(cOptions)
     IN /\ \E t \in now..MaxClock :
             /\ now' = t
             /\ cChunks' = Append(cChunks,
                  [id |-> generateChunkId(t, Len(cChunks)), text |-> chunkText,
                   offset |-> cStart, analysisType |-> cType])
        /\ cStart' = next
        /\ cpc' = IF end >= Len(cText) \/ next >= Len(cText)
                  THEN "done" ELSE "loop"
  /\ UNCHANGED <<cText, cType, cOptions, cRows, cCol, cPrev, cCalls,
                 pipelineVars, validatorVars, deduperVars, csvVars>>

NextChunker == ChunkEmpty \/ ChunkWindow
\* the loop is straight-line code: it keeps running until it returns
SpecChunker == InitChunker /\ [][NextChunker]_vars /\ WF_vars(NextChunker)

\* ------------------------------------------------- C9, C10: sliding window
ChunkRange(c) == {p \in 0..(MaxLen + MaxSize + MaxOverlap + 8) :
                    c.offset <= p /\ p < c.offset + Len(c.text)}

\* C9: with 0 <= overlap < chunkSize the character ranges of the chunks of
\* an unstructured text of length L cover [0, L) exactly, each chunk holds
\* the characters of its range, and two consecutive chunks share exactly
\* min(overlap, chunkSize) characters, except possibly the last pair.
C9_CoverageAndOverlap ==
  (/\ cpc = "done"
   /\ cOptions.chunkSize >= 1
   /\ cOptions.overlap >= 0
   /\ cOptions.overlap < cOptions.chunkSize) =>
    /\ UNION {ChunkRange(cChunks[k]) : k \in 1..Len(cChunks)}
         = 0..(Len(cText) - 1)
    /\ \A k \in 1..Len(cChunks) :
         /\ cChunks[k].offset >= 0
         /\ cChunks[k].text =
              SubSeq(cText, cChunks[k].offset + 1,
                     cChunks[k].offset + Len(cChunks[k].text))
    /\ \A k \in 1..(Len(cChunks) - 2) :
         Cardinality(ChunkRange(cChunks[k]) \cap ChunkRange(cChunks[k + 1]))
           = Min(cOptions.overlap, cOptions.chunkSize)

C9_Witness ==
  /\ cpc = "done"
  /\ cOptions.chunkSize = 3
  /\ cOptions.overlap = 2
  /\ Len(cText) = 5
  /\ Len(cChunks) = 3
  /\ cChunks[3].offset = 2

\* what C10 says of every state of a run with overlap >= chunkSize
C10_SingleSteps ==
  (cpc # "idle" /\ cOptions.overlap >= cOptions.chunkSize) =>
    /\ Len(cChunks) <= Max(1, Len(cText))
    /\ \A k \in 1..Len(cChunks) : cChunks[k].offset = k - 1
    /\ cpc = "done" => Len(cChunks) >= 1

\* C10: for overlap >= chunkSize unstructured chunking terminates; the
\* window advances one character at a time, at least one chunk is returned
\* and every offset is >= 0.
C10_TerminatesWithUnitSteps == []C10_SingleSteps /\ <>(cpc = "done")

C10_Witness ==
  /\ cpc = "done"
  /\ cOptions.chunkSize = 2
  /\ cOptions.overlap = 3
  /\ Len(cText) = 4
  /\ Len(cChunks) = 3
  /\ cChunks[3].offset = 2


\* ------------------------------------------------ ChunkerTool.createChunks
nonChunkerVars == <<pipelineVars, validatorVars, deduperVars, csvVars>>

\* the options tried: chunkSize around the sizes of the texts and of the
\* serialized objects, columnChunkSize from -1 on
CreateOptions ==
  [chunkSize : {0, 2, 12}, overlap : {0, 3},
   columnChunkSize : (-1)..MaxColumnChunkSize]

\* CSV text whose header is blank
BlankHeaderCsv ==
  {<<>>, <<" ">>, <<",">>, <<"\n">>, <<" ", ",", " ">>,
   <<" ", "\n", "a", ",", "b">>, <<Quote, "\n", Quote, ",", " ">>}

\* text JSON.parse rejects
MalformedJson ==
  {<<>>, <<"{">>, <<"a", "b">>, <<"[", "1", ",", "]">>,
   <<"{", Quote, "a", Quote, ":", "b", "}">>}

\* tables of up to MaxColumns columns, one of them at least named, with at
\* most one data row, which may be shorter than the header, written as CSV
\* text; and one table whose header needs quoting
HeaderCells == {<<" ">>, <<"a">>}
DataCell == <<Quote, "1">>
QuotedHeader == <<<<"a">>, <<",">>, <<" ">>>>
Tables ==
  {<<header>> \o body :
     header \in {h \in UNION {[1..c -> HeaderCells] : c \in 1..MaxColumns} :
                   \E i \in 1..Len(h) : h[i] = <<"a">>},
     body \in {<<>>} \cup {<<[i \in 1..c |-> DataCell]>> : c \in 1..MaxColumns}}
  \cup {<<QuotedHeader>>, <<QuotedHeader, <<DataCell, DataCell>>>>}
CsvText(table) ==
  Join([r \in 1..Len(table) |-> serializeCsvRow(table[r])], <<"\n">>)

\* JSON documents of exactly n values; an object has the keys a and b
JsonLeaves ==
  {JNull, JBool(TRUE), JNum(1), JStr(<<"a">>), JArr(<<>>), JObj(<<>>)}
Entry(key, value) == [key |-> key, value |-> value]
JsonDocs[n \in 1..(MaxJsonNodes + 1)] ==
  IF n = 1 THEN JsonLeaves
  ELSE {JArr(<<x>>) : x \in JsonDocs[n - 1]}
       \cup {JObj(<<Entry(<<"a">>, x)>>) : x \in JsonDocs[n - 1]}
       \cup UNION {{JArr(<<x, y>>) : x \in JsonDocs[i],
                                     y \in JsonDocs[n - 1 - i]} :
                     i \in 1..(n - 2)}
       \cup UNION {{JObj(<<Entry(<<"a">>, x), Entry(<<"b">>, y)>>) :
                      x \in JsonDocs[i], y \in JsonDocs[n - 1 - i]} :
                     i \in 1..(n - 2)}

\* the contents tried for a shape
Contents(type) ==
  CASE type = "UNSTRUCTURED" -> SeqsUpTo(Alphabet, MaxText)
    [] type \in {"CSV", "SPREADSHEET"} ->
         BlankHeaderCsv \cup {CsvText(t) : t \in Tables}
    [] type = "JSON" ->
         MalformedJson
         \cup {JsonStringify(d, 0, 0) :
                 d \in UNION {JsonDocs[n] : n \in 1..MaxJsonNodes}}
    [] OTHER -> {<<"a">>}

InitCreate ==
  /\ cType \in AnalysisTypeEnum \cup {"UNSUPPORTED"}
  /\ cText \in Contents(cType)
  /\ cOptions \in CreateOptions
  /\ cStart = 0
  /\ cChunks = <<>>
  /\ cpc = "create"
  /\ now = 0
  /\ cRows = <<>> /\ cCol = 0 /\ cPrev = <<>> /\ cCalls = 0
  /\ PipelineIdle /\ ValidatorIdle /\ DeduperIdle /\ CsvIdle

\* getChunkingStrategy: no strategy for the shape
CreateUnsupported ==
  /\ cpc = "create"
  /\ cType \notin AnalysisTypeEnum
  /\ cpc' = "threw"
  /\ UNCHANGED <<cText, cType, cOptions, cStart, cChunks, now, cRows, cCol,
                 cPrev, cCalls, nonChunkerVars>>

CreateUnstructuredStale ==
  /\ cpc = "create"
  /\ cType = "UNSTRUCTURED"
  /\ cStart' = 0
  /\ cpc' = "call"
  /\ UNCHANGED <<cText, cType, cOptions, cChunks, now, cRows, cCol, cPrev,
                 cCalls, nonChunkerVars>>

\* createChunks for UNSTRUCTURED: chunkUnstructured starts with no chunks
\* at position 0
CreateUnstructured ==
  /\ cpc = "create"
  /\ cType = "UNSTRUCTURED"
  /\ cChunks' = <<>>
  /\ cStart' = 0
  /\ cpc' = "call"
  /\ UNCHANGED <<cText, cType, cOptions, now, cRows, cCol, cPrev, cCalls,
                 nonChunkerVars>>

\* createChunks for CSV and SPREADSHEET: chunkByColumn up to its loop; a
\* blank header hands the raw text to chunkUnstructured
ChunkByColumn ==
  /\ cpc = "create"
  /\ cType \in {"CSV", "SPREADSHEET"}
  /\ LET parsedRows == parseCsv(cText)
     IN /\ cRows' = parsedRows
        /\ cpc' = IF IsBlankHeader(HeaderOf(parsedRows)) THEN "call"
                  ELSE IF 0 < Len(HeaderOf(parsedRows)) THEN "columns"
                  ELSE "done"
  /\ cChunks' = <<>>
  /\ cStart' = 0
  /\ cCol' = 0
  /\ UNCHANGED <<cText, cType, cOptions, now, cPrev, cCalls, nonChunkerVars>>

\* one pass through the body of for (i = 0; i < header.length; i +=
\* columnChunkSize), with the loop test that follows it
ColumnChunk ==
  /\ cpc = "columns"
  /\ Len(cChunks) < MaxColumnPasses
  /\ \E t \in now..MaxClock :
       /\ now' = t
       /\ cChunks' = Append(cChunks,
            [id |-> generateChunkId(t, Len(cChunks)),
             text |-> ColumnChunkText(cRows, cCol, cOptions.columnChunkSize),
             offset |-> cCol, analysisType |-> cType])
  /\ cCol' = cCol + ColumnStep(cOptions)
  /\ cpc' = IF cCol + ColumnStep(cOptions) < Len(HeaderOf(cRows))
            THEN "columns" ELSE "done"
  /\ UNCHANGED <<cText, cType, cOptions, cStart, cRows, cPrev, cCalls,
                 nonChunkerVars>>

\* createChunks for JSON, text JSON.parse rejects: the catch block hands
\* the raw text to chunkUnstructured
ChunkJsonFallback ==
  /\ cpc = "create"
  /\ cType = "JSON"
  /\ ~JsonParse(cText).ok
  /\ cChunks' = <<>>
  /\ cStart' = 0
  /\ cpc' = "call"
  /\ UNCHANGED <<cText, cType, cOptions, now, cRows, cCol, cPrev, cCalls,
                 nonChunkerVars>>

\* createChunks for JSON that parses: the chunks of recursiveJsonChunk, the
\* clock being read at every push
ChunkJson ==
  /\ cpc = "create"
  /\ cType = "JSON"
  /\ JsonParse(cText).ok
  /\ LET pushed == recursiveJsonChunk(JsonParse(cText).value, <<>>,
                                      cOptions.chunkSize, <<>>)
     IN \E times \in [1..Len(pushed) -> now..MaxClock] :
          /\ \A k \in 2..Len(pushed) : times[k - 1] <= times[k]
          /\ cChunks' = [k \in 1..Len(pushed) |->
                           [id |-> generateChunkId(times[k], pushed[k].index),
                            text |-> pushed[k].text,
                            offset |-> pushed[k].offset,
                            analysisType |-> cType]]
          /\ now' = IF pushed = <<>> THEN now ELSE times[Len(pushed)]
  /\ cpc' = "done"
  /\ UNCHANGED <<cText, cType, cOptions, cStart, cRows, cCol, cPrev, cCalls,
                 nonChunkerVars>>

NextCreate ==
  \/ CreateUnsupported
  \/ CreateUnstructured
  \/ ChunkEmpty
  \/ ChunkWindow
  \/ ChunkByColumn
  \/ ColumnChunk
  \/ ChunkJsonFallback
  \/ ChunkJson

SpecCreate == InitCreate /\ [][NextCreate]_vars

\* createChunks on tables with a header that is not blank: chunkByColumn
\* and its loop.  The code is straight-line: it keeps running until it
\* returns.
InitColumns ==
  /\ cType \in {"CSV", "SPREADSHEET"}
  /\ cText \in {CsvText(t) : t \in Tables}
  /\ cOptions \in {o \in CreateOptions : o.chunkSize = 12 /\ o.overlap = 0}
  /\ cStart = 0
  /\ cChunks = <<>>
  /\ cpc = "create"
  /\ now = 0
  /\ cRows = <<>> /\ cCol = 0 /\ cPrev = <<>> /\ cCalls = 0
  /\ PipelineIdle /\ ValidatorIdle /\ DeduperIdle /\ CsvIdle

NextColumns == ChunkByColumn \/ ColumnChunk

SpecColumnsFair ==
  InitColumns /\ [][NextColumns]_vars /\ WF_vars(NextColumns)

\* ------------------------------- two createChunks calls on the same input
\* the contents tried twice
TwiceContents(type) ==
  CASE type = "UNSTRUCTURED" -> {<<>>, <<"a", "b", "a">>}
    [] type \in {"CSV", "SPREADSHEET"} ->
         BlankHeaderCsv \cup {<<"a", ",", "b", "\n", "1", ",", "1">>}
    [] type = "JSON" ->
         MalformedJson
         \cup {JsonStringify(d, 0, 0) :
                 d \in {JNull, JArr(<<JNum(1), JStr(<<"a">>)>>),
                        JObj(<<Entry(<<"a">>,
                                     JObj(<<Entry(<<"a">>, JNum(1))>>))>>)}}
    [] OTHER -> {<<"a">>}

InitTwice ==
  /\ cType \in AnalysisTypeEnum \cup {"UNSUPPORTED"}
  /\ cText \in TwiceContents(cType)
  /\ cOptions \in CreateOptions
  /\ cStart = 0
  /\ cChunks = <<>>
  /\ cpc = "create"
  /\ now = 0
  /\ cRows = <<>> /\ cCol = 0 /\ cPrev = <<>> /\ cCalls = 1
  /\ PipelineIdle /\ ValidatorIdle /\ DeduperIdle /\ CsvIdle

\* the caller keeps what createChunks returned and calls it again on the
\* same chunker and content, for the same shape or for UNSTRUCTURED
CreateAgain ==
  /\ cpc = "done"
  /\ cCalls > 0
  /\ cPrev' = Append(cPrev, [type |-> cType, chunks |-> cChunks])
  /\ cType' \in {cType, "UNSTRUCTURED"}
  /\ cCalls' = cCalls - 1
  /\ cpc' = "create"
  /\ UNCHANGED <<cText, cOptions, cStart, cChunks, now, cRows, cCol,
                 nonChunkerVars>>

NextTwice == NextCreate \/ CreateAgain
SpecTwice == InitTwice /\ [][NextTwice]_vars

\* ---------------------------------------------- C11..C15, C17, C18: chunks
\* C11: chunking empty content gives exactly one chunk with empty text and
\* offset 0, for every supported shape and every chunkSize, overlap and
\* columnChunkSize; no shape throws or enters the column loop on it.
C11_EmptyContentOneChunk ==
  (cpc # "idle" /\ cText = <<>> /\ cType \in AnalysisTypeEnum) =>
    /\ cpc \in {"create", "call", "done"}
    /\ cpc = "done" =>
         /\ Len(cChunks) = 1
         /\ cChunks[1].text = <<>>
         /\ cChunks[1].offset = 0
         /\ cChunks[1].analysisType = cType

C11_Witness ==
  /\ cpc = "done"
  /\ cText = <<>>
  /\ cType = "SPREADSHEET"
  /\ cOptions = [chunkSize |-> 0, overlap |-> 3, columnChunkSize |-> -1]
  /\ Len(cChunks) = 1
  /\ cChunks[1].text = <<>>

\* C12: createChunks returns at least one chunk for every supported shape
\* and every content, JSON that parses to null, to an empty array or to an
\* object holding null values included.
C12_AtLeastOneChunk ==
  (cpc = "done" /\ cType \in AnalysisTypeEnum) => Len(cChunks) >= 1

\* C13: the ids of the chunks of one createChunks call are pairwise
\* distinct, whatever the strategy and whether or not it fell back.
C13_IdsDistinct ==
  \A i, j \in 1..Len(cChunks) : i # j => cChunks[i].id # cChunks[j].id

C13_Witness ==
  /\ cpc = "done"
  /\ cType = "JSON"
  /\ JsonParse(cText).ok
  /\ cText = <<"[", "1", ",", Quote, "a", Quote, "]">>
  /\ Len(cChunks) = 2
  /\ now = 0
  /\ cChunks[1].id = generateChunkId(0, 0)
  /\ cChunks[2].id = generateChunkId(0, 1)

\* a second createChunks call for the same shape has returned
SecondCallDone ==
  cpc = "done" /\ Len(cPrev) = 1 /\ cPrev[1].type = cType

\* C14 as stated: two calls with the same shape, content and options return
\* identical chunk sequences, ids included, whenever they are run.
C14_SameChunksEveryTime ==
  SecondCallDone => cChunks = cPrev[1].chunks

\* C14, amended: two calls with the same shape, content and options return
\* as many chunks, with the same text, offset and shape in every position.
C14_SameChunksUpToId ==
  SecondCallDone =>
    /\ Len(cChunks) = Len(cPrev[1].chunks)
    /\ \A k \in 1..Len(cChunks) :
         /\ cChunks[k].text = cPrev[1].chunks[k].text
         /\ cChunks[k].offset = cPrev[1].chunks[k].offset
         /\ cChunks[k].analysisType = cPrev[1].chunks[k].analysisType

C14_Witness ==
  /\ SecondCallDone
  /\ cType = "UNSTRUCTURED"
  /\ Len(cChunks) = 2
  /\ cChunks[1].id # cPrev[1].chunks[1].id
  /\ cChunks[2].text = cPrev[1].chunks[2].text

\* the header row of CSV text, and whether some column of it is not blank
CsvHeader(text) == parseCsv(text)[1]
NonBlankHeader(text) ==
  \E h \in 1..Len(CsvHeader(text)) : ~IsBlank(CsvHeader(text)[h])

\* C15: for CSV or spreadsheet content with a non-blank header of C columns
\* and columnChunkSize k >= 1 there are exactly ceil(C / k) chunks; chunk j
\* has offset j * k and its header row holds columns j * k up to
\* min(C, (j + 1) * k) - 1, so the header rows put together are the header.
C15_ColumnGroups ==
  (/\ cpc = "done"
   /\ cType \in {"CSV", "SPREADSHEET"}
   /\ NonBlankHeader(cText)
   /\ cOptions.columnChunkSize >= 1) =>
    LET header == CsvHeader(cText)
        k == cOptions.columnChunkSize
        slices == [j \in 1..Len(cChunks) |-> CsvHeader(cChunks[j].text)]
    IN /\ Len(cChunks) = (Len(header) + k - 1) \div k
       /\ \A j \in 1..Len(cChunks) :
            /\ cChunks[j].offset = (j - 1) * k
            /\ slices[j] = SubSeq(header, (j - 1) * k + 1,
                                  Min(Len(header), j * k))
       /\ Flatten(slices) = header

C15_Witness ==
  /\ cpc = "done"
  /\ cType = "CSV"
  /\ cOptions.columnChunkSize = 2
  /\ CsvHeader(cText) = <<<<"a">>, <<",">>, <<" ">>>>
  /\ Len(cChunks) = 2
  /\ cChunks[2].offset = 2
  /\ CsvHeader(cChunks[2].text) = <<<<" ">>>>

\* content that makes the strategy of the shape fall back
FallsBack(type, text) ==
  \/ type = "JSON" /\ ~JsonParse(text).ok
  \/ type \in {"CSV", "SPREADSHEET"} /\ ~NonBlankHeader(text)

\* C17: malformed JSON, and CSV or spreadsheet content with a blank header,
\* never raise an error: createChunks returns the chunks the unstructured
\* strategy returns for the same raw content, tagged with the shape asked.
C17_FallbackToUnstructured ==
  /\ FallsBack(cType, cText) => cpc \notin {"threw", "columns"}
  /\ (/\ cpc = "done" /\ Len(cPrev) = 1 /\ cType = "UNSTRUCTURED"
      /\ FallsBack(cPrev[1].type, cText)) =>
       LET fallback == cPrev[1].chunks
       IN /\ Len(fallback) = Len(cChunks)
          /\ \A k \in 1..Len(fallback) :
               /\ fallback[k].text = cChunks[k].text
               /\ fallback[k].offset = cChunks[k].offset
               /\ fallback[k].analysisType = cPrev[1].type

C17_Witness ==
  /\ cpc = "done" /\ Len(cPrev) = 1 /\ cType = "UNSTRUCTURED"
  /\ cPrev[1].type = "JSON"
  /\ cText = <<"{", Quote, "a", Quote, ":", "b", "}">>
  /\ cOptions.chunkSize = 2
  /\ Len(cPrev[1].chunks) = 4
  /\ cPrev[1].chunks[4].analysisType = "JSON"

\* the texts of the descent C18 describes: as recursiveJsonChunk, with
\* every primitive value, null included, giving one chunk
RECURSIVE DescentTexts(_, _, _, _)
DescentTexts(obj, path, chunkSize, texts) ==
  CASE obj.t = "array" ->
         LET each[i \in 0..Len(obj.items)] ==
               IF i = 0 THEN texts
               ELSE DescentTexts(obj.items[i],
                                 path \o <<"[">> \o Decimal(i - 1) \o <<"]">>,
                                 chunkSize, each[i - 1])
         IN each[Len(obj.items)]
    [] obj.t = "object" ->
         LET each[i \in 0..Len(obj.entries)] ==
               IF i = 0 THEN texts
               ELSE DescentTexts(obj.entries[i].value,
                                 IF path = <<>> THEN obj.entries[i].key
                                 ELSE path \o <<".">> \o obj.entries[i].key,
                                 chunkSize, each[i - 1])
         IN IF Len(JsonStringify(obj, 2, 0)) <= chunkSize
            THEN Append(texts, JsonStringify(obj, 2, 0))
            ELSE each[Len(obj.entries)]
    [] OTHER ->
         Append(texts,
                IF path = <<>> THEN JsonStringify(obj, 0, 0)
                ELSE <<Quote>> \o path \o <<Quote, ":", " ">>
                       \o JsonStringify(obj, 0, 0))

\* C18: for content that parses as JSON the chunks are those of the
\* recursive descent: the chunks of each element of an array under [index],
\* one chunk for an object whose serialized form is within chunkSize, the
\* chunks of each property of a larger object under .key, and one chunk
\* "<path>": <value> (the bare value at the root) for every primitive.
C18_RecursiveDescent ==
  (cpc = "done" /\ cType = "JSON" /\ JsonParse(cText).ok) =>
    [k \in 1..Len(cChunks) |-> cChunks[k].text]
      = DescentTexts(JsonParse(cText).value, <<>>, cOptions.chunkSize, <<>>)

\* --------------------------- analyzeSensitiveContent and Workflow.execute
Policy(id, name) == [id |-> id, name |-> name]
GoodPolicies == <<Policy(<<"p">>, <<"P">>)>>
Job(content, type, policies) ==
  [content |-> content, analysisType |-> type, policies |-> policies]

\* the jobs tried: every shape, and every way of being malformed
Jobs ==
  {Job(<<"x">>, t, GoodPolicies) : t \in AnalysisTypeEnum \cup {"UNSUPPORTED"}}
  \cup {Job(<<>>, "UNSTRUCTURED", GoodPolicies),
        Job(<<"x">>, "UNSTRUCTURED", <<>>),
        Job(<<"x">>, "UNSTRUCTURED", <<Policy(<<>>, <<"P">>)>>),
        Job(<<"x">>, "CSV", <<Policy(<<"p">>, <<>>)>>),
        Job(<<>>, "UNSUPPORTED", <<>>)}

\* what the identifier may return for a chunk of a job of the given shape
IdentifierResults(type) ==
  CASE type = "UNSTRUCTURED" ->
         {<<>>,
          <<UnstructuredEntity(<<"x">>, 9, <<"a">>),
            UnstructuredEntity(<<"x">>, 4, <<"b">>)>>,
          <<UnstructuredEntity(<<"y">>, 9, <<"A">>)>>}
    [] type = "SPREADSHEET" ->
         {<<>>,
          <<SpreadsheetEntity(<<"x">>, 9, <<"a">>, <<A1, B1>>),
            SpreadsheetEntity(<<"x">>, 4, <<"a">>, <<A1>>)>>,
          <<SpreadsheetEntity(<<"y">>, 9, <<"a">>, <<B1, A1>>)>>}
    [] OTHER ->
         {<<>>,
          <<StructuredEntity(<<"x">>, 9, <<"a">>),
            StructuredEntity(<<"x">>, 4, <<"b">>)>>,
          <<StructuredEntity(<<"y">>, 9, <<"a">>)>>}

\* every job under NODE_ENV=test, the plain job under production as well
Configs ==
  {<<"test", j>> : j \in Jobs}
  \cup {<<"production", Job(<<"x">>, "UNSTRUCTURED", GoodPolicies)>>}

InitPipeline ==
  /\ \E c \in Configs : env = c[1] /\ job = c[2]
  /\ pc = "start"
  /\ nChunks = 0
  /\ task = <<>> /\ identified = <<>> /\ failure = <<>> /\ validated = <<>>
  /\ snaps = <<>> /\ rejectedBy = 0
  /\ identifiedCount = 0 /\ validatedCount = 0
  /\ events = <<>> /\ outcome = [status |-> "none"] /\ chunkerCalled = FALSE
  /\ resolveOrder = <<>>
  /\ closedAt = -1
  /\ IdentifierIdle
  /\ ValidatorIdle /\ DeduperIdle /\ ChunkerIdle /\ CsvIdle

\* what the steps of analyzeSensitiveContent and execute leave alone
otherVars == <<historyVars, routeVars, identifierVars, validatorVars,
               deduperVars, chunkerVars, csvVars>>

\* const validatedJob = TriggerSchema.parse(job); a ZodError goes to the
\* catch block of execute, which throws
ValidateInput ==
  /\ pc = "start"
  /\ IF TriggerSchema(job)
     THEN pc' = "chunking" /\ outcome' = outcome
     ELSE pc' = "thrown" /\ outcome' = [status |-> "error", chunk |-> 0]
  /\ UNCHANGED <<env, job, nChunks, task, identified, failure, validated,
                 snaps, rejectedBy, identifiedCount, validatedCount, events,
                 chunkerCalled, otherVars>>

\* executeChunkingStep, then chunks.map(... queue.add ...) and Promise.all.
\* createChunks returns n chunks; only JSON content (null, []) yields none.
Chunking(maxN) ==
  /\ pc = "chunking"
  /\ \E n \in (IF job.analysisType = "JSON" THEN 0 ELSE 1)..maxN :
       /\ nChunks' = n
       /\ task' = [i \in 1..n |-> "queued"]
       /\ identified' = [i \in 1..n |-> <<>>]
       /\ failure' = [i \in 1..n |-> "none"]
       /\ validated' = [i \in 1..n |-> <<>>]
       /\ snaps' = [i \in 1..n |-> <<>>]
  /\ chunkerCalled' = TRUE
  /\ pc' = "joining"
  /\ UNCHANGED <<env, job, rejectedBy, identifiedCount, validatedCount,
                 events, outcome, otherVars>>

AdmitFirstBatchOnly(i) ==
  /\ i \in 1..nChunks
  /\ i <= Concurrency
  /\ task[i] = "queued"
  /\ \A k \in 1..(i - 1) : task[k] # "queued"
  /\ task' = [task EXCEPT ![i] = "identifying"]
  /\ UNCHANGED <<env, job, pc, nChunks, identified, failure, validated, snaps,
                 rejectedBy, identifiedCount, validatedCount, events, outcome,
                 chunkerCalled, otherVars>>

\* the queue starts its oldest waiting task while fewer than `concurrency`
\* tasks are running
Admit(i) ==
  /\ i \in 1..nChunks
  /\ task[i] = "queued"
  /\ \A k \in 1..(i - 1) : task[k] # "queued"
  /\ Cardinality(InFlight) < Concurrency
  /\ task' = [task EXCEPT ![i] = "identifying"]
  /\ UNCHANGED <<env, job, pc, nChunks, identified, failure, validated, snaps,
                 rejectedBy, identifiedCount, validatedCount, events, outcome,
                 chunkerCalled, otherVars>>

SnapshotNewestFirst(i, hasEntities, budget) ==
  /\ i \in 1..nChunks
  /\ task[i] = "identifying"
  /\ SumSeq([k \in 1..Len(snaps) |-> Len(snaps[k])]) < budget
  /\ snaps' = [snaps EXCEPT ![i] = Append(@, hasEntities)]
  /\ events' = IF hasEntities
               THEN <<Event("thinking", i, Len(snaps[i]) + 1)>> \o events
               ELSE events
  /\ UNCHANGED <<env, job, pc, nChunks, task, identified, failure, validated,
                 rejectedBy, identifiedCount, validatedCount, outcome,
                 chunkerCalled, otherVars>>

\* for await (const partialObject of result.partialObjectStream): one
\* partial object, passed to onStream as a 'thinking' event when it carries
\* entities; onStream is the callback of analyzeSensitiveContent, which
\* calls the sink before it returns
Snapshot(i, hasEntities, budget) ==
  /\ i \in 1..nChunks
  /\ task[i] = "identifying"
  /\ SumSeq([k \in 1..Len(snaps) |-> Len(snaps[k])]) < budget
  /\ snaps' = [snaps EXCEPT ![i] = Append(@, hasEntities)]
  /\ events' = IF hasEntities
               THEN Append(events, Event("thinking", i, Len(snaps[i]) + 1))
               ELSE events
  /\ UNCHANGED <<env, job, pc, nChunks, task, identified, failure, validated,
                 rejectedBy, identifiedCount, validatedCount, outcome,
                 chunkerCalled, otherVars>>

\* the task resumes with the entities of its chunk:
\* identifiedCount += entities.length, then it awaits the validation step
TaskIdentified(i, entities) ==
  /\ identified' = [identified EXCEPT ![i] = entities]
  /\ identifiedCount' = AddCount(identifiedCount, Len(entities))
  /\ task' = [task EXCEPT ![i] = "validating"]
  /\ UNCHANGED <<rejectedBy>>

\* the task's catch block rethrows with the chunk index; the first
\* rejection settles Promise.all
TaskRejected(i) ==
  /\ task' = [task EXCEPT ![i] = "rejected"]
  /\ rejectedBy' = IF rejectedBy = 0 THEN i ELSE rejectedBy
  /\ UNCHANGED <<identified, identifiedCount>>

\* return (finalResult?.entities || [])
IdentifyReturn(i, entities) ==
  /\ i \in 1..nChunks
  /\ task[i] = "identifying"
  /\ TaskIdentified(i, entities)
  /\ UNCHANGED <<env, job, pc, nChunks, failure, validated, snaps,
                 validatedCount, events, outcome, chunkerCalled, otherVars>>

\* an error raised while formatting the policies, calling the model or
\* reading its stream lands in the catch block of the identifier
IdentifyFail(i, kind) ==
  /\ i \in 1..nChunks
  /\ task[i] = "identifying"
  /\ failure' = [failure EXCEPT ![i] = kind]
  /\ IF IdentifierCatch(kind, env) = "rethrow"
     THEN TaskRejected(i)
     ELSE TaskIdentified(i, <<>>)
  /\ UNCHANGED <<env, job, pc, nChunks, validated, snaps, validatedCount,
                 events, outcome, chunkerCalled, otherVars>>

\* const validated = await this.executeValidationStep(entities);
\* validatedCount += validated.length; return validated
ValidationDone(i) ==
  /\ i \in 1..nChunks
  /\ task[i] = "validating"
  /\ LET v == executeValidationStep(identified[i])
     IN /\ validated' = [validated EXCEPT ![i] = v]
        /\ validatedCount' = AddCount(validatedCount, Len(v))
  /\ task' = [task EXCEPT ![i] = "resolved"]
  /\ UNCHANGED <<env, job, pc, nChunks, identified, failure, snaps,
                 rejectedBy, identifiedCount, events, outcome, chunkerCalled,
                 otherVars>>

ExecuteJoinSettled ==
  /\ pc = "joining"
  /\ \A i \in 1..nChunks : task[i] \in {"resolved", "rejected"}
  /\ LET results == Flatten(validated)
         finalEntities == executeDeduplicationStep(results, job.analysisType)
     IN outcome' =
          [status |-> "result",
           entities |-> finalEntities,
           stats |-> [chunksGenerated |-> nChunks,
                      entitiesFound |-> identifiedCount,
                      entitiesValidated |-> validatedCount,
                      entitiesDeduplicated |-> Len(finalEntities)]]
  /\ pc' = "returned"
  /\ UNCHANGED <<env, job, nChunks, task, identified, failure, validated,
                 snaps, rejectedBy, identifiedCount, validatedCount, events,
                 chunkerCalled, otherVars>>

ExecuteJoinEager ==
  /\ pc = "joining"
  /\ rejectedBy = 0
  /\ nChunks = 0 \/ \E i \in 1..nChunks : task[i] = "resolved"
  /\ LET results == Flatten(validated)
         finalEntities == executeDeduplicationStep(results, job.analysisType)
     IN outcome' =
          [status |-> "result",
           entities |-> finalEntities,
           stats |-> [chunksGenerated |-> nChunks,
                      entitiesFound |-> identifiedCount,
                      entitiesValidated |-> validatedCount,
                      entitiesDeduplicated |-> Len(finalEntities)]]
  /\ pc' = "returned"
  /\ UNCHANGED <<env, job, nChunks, task, identified, failure, validated,
                 snaps, rejectedBy, identifiedCount, validatedCount, events,
                 chunkerCalled, otherVars>>

ExecuteJoinCompletionOrder ==
  /\ pc = "joining"
  /\ rejectedBy = 0
  /\ \A i \in 1..nChunks : task[i] = "resolved"
  /\ LET results == Flatten([k \in 1..Len(resolveOrder) |->
                               validated[resolveOrder[k]]])
         finalEntities == executeDeduplicationStep(results, job.analysisType)
     IN outcome' =
          [status |-> "result",
           entities |-> finalEntities,
           stats |-> [chunksGenerated |-> nChunks,
                      entitiesFound |-> identifiedCount,
                      entitiesValidated |-> validatedCount,
                      entitiesDeduplicated |-> Len(finalEntities)]]
  /\ pc' = "returned"
  /\ UNCHANGED <<env, job, nChunks, task, identified, failure, validated,
                 snaps, rejectedBy, identifiedCount, validatedCount, events,
                 chunkerCalled, otherVars>>

\* Promise.all(tasks) fulfils with the results in the order of `tasks`,
\* that of the chunks: flatMap, deduplication, compiled result
ExecuteJoin ==
  /\ pc = "joining"
  /\ rejectedBy = 0
  /\ \A i \in 1..nChunks : task[i] = "resolved"
  /\ LET results == Flatten(validated)
         finalEntities == executeDeduplicationStep(results, job.analysisType)
     IN outcome' =
          [status |-> "result",
           entities |-> finalEntities,
           stats |-> [chunksGenerated |-> nChunks,
                      entitiesFound |-> identifiedCount,
                      entitiesValidated |-> validatedCount,
                      entitiesDeduplicated |-> Len(finalEntities)]]
  /\ pc' = "returned"
  /\ UNCHANGED <<env, job, nChunks, task, identified, failure, validated,
                 snaps, rejectedBy, identifiedCount, validatedCount, events,
                 chunkerCalled, otherVars>>

ExecuteCatchEmitting ==
  /\ pc = "joining"
  /\ rejectedBy # 0
  /\ outcome' = [status |-> "error", chunk |-> rejectedBy]
  /\ events' = Append(events, Event("error", 0, 0))
  /\ pc' = "thrown"
  /\ UNCHANGED <<env, job, nChunks, task, identified, failure, validated,
                 snaps, rejectedBy, identifiedCount, validatedCount,
                 chunkerCalled, otherVars>>

\* Promise.all(tasks) rejects: the catch block of execute throws
ExecuteCatch ==
  /\ pc = "joining"
  /\ rejectedBy # 0
  /\ outcome' = [status |-> "error", chunk |-> rejectedBy]
  /\ pc' = "thrown"
  /\ UNCHANGED <<env, job, nChunks, task, identified, failure, validated,
                 snaps, rejectedBy, identifiedCount, validatedCount, events,
                 chunkerCalled, otherVars>>

\* onEvent('complete', { entities, stats })
EmitComplete ==
  /\ pc = "returned"
  /\ events' = Append(events, Event("complete", 0, 0))
  /\ pc' = "done"
  /\ UNCHANGED <<env, job, nChunks, task, identified, failure, validated,
                 snaps, rejectedBy, identifiedCount, validatedCount, outcome,
                 chunkerCalled, otherVars>>

\* catch (error) { onEvent('error', { message }) }
EmitError ==
  /\ pc = "thrown"
  /\ events' = Append(events, Event("error", 0, 0))
  /\ pc' = "done"
  /\ UNCHANGED <<env, job, nChunks, task, identified, failure, validated,
                 snaps, rejectedBy, identifiedCount, validatedCount, outcome,
                 chunkerCalled, otherVars>>

Next ==
  \/ ValidateInput
  \/ Chunking(MaxChunks)
  \/ \E i \in 1..nChunks : Admit(i)
  \/ \E i \in 1..nChunks, b \in BOOLEAN : Snapshot(i, b, MaxSnapshots)
  \/ \E i \in 1..nChunks, e \in IdentifierResults(job.analysisType) :
       IdentifyReturn(i, e)
  \/ \E i \in 1..nChunks, k \in ErrorKinds : IdentifyFail(i, k)
  \/ \E i \in 1..nChunks : ValidationDone(i)
  \/ ExecuteJoin
  \/ ExecuteCatch
  \/ EmitComplete
  \/ EmitError

Init == InitPipeline

Spec == Init /\ [][Next]_vars

\* ------------------------------------------- the worker pool on many chunks
\* The same pipeline on jobs of up to PoolChunks chunks, with identifier
\* calls that return nothing or fail, to exercise the queue's admission.
InitPool ==
  /\ env = "test"
  /\ job = Job(<<"x">>, "UNSTRUCTURED", GoodPolicies)
  /\ pc = "start"
  /\ nChunks = 0
  /\ task = <<>> /\ identified = <<>> /\ failure = <<>> /\ validated = <<>>
  /\ snaps = <<>> /\ rejectedBy = 0
  /\ identifiedCount = 0 /\ validatedCount = 0
  /\ events = <<>> /\ outcome = [status |-> "none"] /\ chunkerCalled = FALSE
  /\ resolveOrder = <<>>
  /\ closedAt = -1
  /\ IdentifierIdle
  /\ ValidatorIdle /\ DeduperIdle /\ ChunkerIdle /\ CsvIdle

NextPool ==
  \/ ValidateInput
  \/ Chunking(PoolChunks)
  \/ \E i \in 1..nChunks : Admit(i)
  \/ \E i \in 1..nChunks : IdentifyReturn(i, <<>>)
  \/ \E i \in 1..nChunks : IdentifyFail(i, "unexpected")
  \/ \E i \in 1..nChunks : ValidationDone(i)
  \/ ExecuteJoin
  \/ ExecuteCatch
  \/ EmitComplete
  \/ EmitError

SpecPool == InitPool /\ [][NextPool]_vars

\* The event loop runs every continuation that is ready, and every
\* identifier call is taken to return or fail in the end: no step that
\* stays possible is put off for ever.
SpecPoolFair == InitPool /\ [][NextPool]_vars /\ WF_vars(NextPool)

\* ----------------------------------------------- app.post('/api/analyze')
\* One valid request body under the route: sendEvent writes every event the
\* callback receives to the response, so `events` is what response.write
\* has been called with.  The caller may go away while the job runs.
InitRoute ==
  /\ env = "production"
  /\ job = Job(<<"x">>, "UNSTRUCTURED", GoodPolicies)
  /\ pc = "start"
  /\ nChunks = 0
  /\ task = <<>> /\ identified = <<>> /\ failure = <<>> /\ validated = <<>>
  /\ snaps = <<>> /\ rejectedBy = 0
  /\ identifiedCount = 0 /\ validatedCount = 0
  /\ events = <<>> /\ outcome = [status |-> "none"] /\ chunkerCalled = FALSE
  /\ resolveOrder = <<>>
  /\ closedAt = -1
  /\ IdentifierIdle
  /\ ValidatorIdle /\ DeduperIdle /\ ChunkerIdle /\ CsvIdle

\* request.on('close', cleanup) / request.on('aborted', cleanup):
\* cleanup is response.end() and nothing else
Disconnect ==
  /\ closedAt = -1
  /\ pc # "done"
  /\ closedAt' = Len(events)
  /\ UNCHANGED <<workflowVars, historyVars, identifierVars, validatorVars,
                 deduperVars, chunkerVars, csvVars>>

NextRoute ==
  \/ Next
  \/ Disconnect

SpecRoute == InitRoute /\ [][NextRoute]_vars

\* C22: after the caller has disconnected no further event of the job is
\* forwarded to the response stream: what identifier calls still in flight
\* produce is discarded, not written.
C22_NothingSentAfterDisconnect ==
  closedAt >= 0 => Len(events) = closedAt

\* ------------------------------------------------ streaming of snapshots
\* One job whose identifier calls stream several partial objects each.
StreamBudget == MaxSnapshots + 2

InitStream ==
  /\ env = "test"
  /\ job = Job(<<"x">>, "UNSTRUCTURED", GoodPolicies)
  /\ pc = "start"
  /\ nChunks = 0
  /\ task = <<>> /\ identified = <<>> /\ failure = <<>> /\ validated = <<>>
  /\ snaps = <<>> /\ rejectedBy = 0
  /\ identifiedCount = 0 /\ validatedCount = 0
  /\ events = <<>> /\ outcome = [status |-> "none"] /\ chunkerCalled = FALSE
  /\ resolveOrder = <<>>
  /\ closedAt = -1
  /\ IdentifierIdle
  /\ ValidatorIdle /\ DeduperIdle /\ ChunkerIdle /\ CsvIdle

NextStream ==
  \/ ValidateInput
  \/ Chunking(MaxChunks)
  \/ \E i \in 1..nChunks : Admit(i)
  \/ \E i \in 1..nChunks, b \in BOOLEAN : Snapshot(i, b, StreamBudget)
  \/ \E i \in 1..nChunks : IdentifyReturn(i, <<>>)
  \/ \E i \in 1..nChunks : IdentifyFail(i, "unexpected")
  \/ \E i \in 1..nChunks : ValidationDone(i)
  \/ ExecuteJoin
  \/ ExecuteCatch
  \/ EmitComplete
  \/ EmitError

SpecStream == InitStream /\ [][NextStream]_vars

\* the 'thinking' events the sink has received for chunk i, in order, each
\* named by the ordinal of the partial object it carries
ThinkingOf(i) ==
  LET mine == Filter(events, {k \in 1..Len(events) :
                               /\ events[k].type = "thinking"
                               /\ events[k].chunkId = i})
  IN [k \in 1..Len(mine) |-> mine[k].n]
\* the partial objects the identifier has passed to onStream for chunk i:
\* those that carry at least one entity
EmittedOf(i) ==
  Filter([n \in 1..Len(snaps[i]) |-> n],
         {n \in 1..Len(snaps[i]) : snaps[i][n]})

\* C23: every snapshot the identifier emits for a chunk reaches the sink as
\* one 'thinking' event with that chunk's id, at once and in the order of
\* emission: at every moment the sink holds, per chunk, exactly the
\* snapshots emitted so far, none missing, doubled or out of order.
C23_SnapshotsForwardedInOrder ==
  /\ \A i \in 1..nChunks : ThinkingOf(i) = EmittedOf(i)
  /\ \A k \in 1..Len(events) :
       events[k].type = "thinking" => events[k].chunkId \in 1..nChunks

C23_Witness ==
  /\ nChunks = 2
  /\ snaps = <<<<TRUE, TRUE>>, <<TRUE>>>>
  /\ events = <<Event("thinking", 1, 1), Event("thinking", 2, 1),
                Event("thinking", 1, 2)>>

\* ------------------------------------------------------ C1..C6: the pipeline
TerminalEvents ==
  {k \in 1..Len(events) : events[k].type \in {"complete", "error"}}
CompleteEvents == {k \in 1..Len(events) : events[k].type = "complete"}
ErrorEvents == {k \in 1..Len(events) : events[k].type = "error"}

\* C1: the sink receives at most one terminal event while a job runs and
\* exactly one, 'complete' or 'error', once analyzeSensitiveContent is over.
C1_ExactlyOneTerminalEvent ==
  /\ Cardinality(TerminalEvents) <= 1
  /\ pc = "done" => Cardinality(TerminalEvents) = 1
  /\ pc # "done" => TerminalEvents = {}

C1_Witness ==
  /\ pc = "done"
  /\ nChunks = 2
  /\ Cardinality(CompleteEvents) = 1
  /\ Len(events) = 2

\* C2: once the task of a chunk has failed, execute returns no result: it
\* throws one error, the job ends with one 'error' event, no 'complete'
\* event is emitted and no entity of a chunk that succeeded is returned.
C2_ChunkFailureIsFatal ==
  (\E i \in 1..nChunks : task[i] = "rejected") =>
    /\ pc \in {"joining", "thrown", "done"}
    /\ outcome.status \in {"none", "error"}
    /\ pc \in {"thrown", "done"} => outcome.status = "error"
    /\ CompleteEvents = {}
    /\ pc = "done" => Cardinality(ErrorEvents) = 1

C2_Witness ==
  /\ pc = "done"
  /\ nChunks = 2
  /\ task[1] = "resolved" /\ Len(validated[1]) = 1
  /\ task[2] = "rejected"
  /\ events = <<Event("error", 0, 0)>>

\* C3 as stated: a failure of the identifier on a chunk always fails the
\* chunk's task and is never turned into an empty entity list.
C3_FailureAlwaysPropagates ==
  \A i \in 1..nChunks : failure[i] # "none" => task[i] = "rejected"

\* C3, amended: a failure of the identifier fails the chunk's task, and with
\* it the job, exactly when its message names the API key or, under
\* NODE_ENV=test, when it is not one of the three recoverable errors; any
\* other failure becomes an empty entity list and the task goes on.
C3_FailurePropagatesUnlessSwallowed ==
  \A i \in 1..nChunks : failure[i] # "none" =>
    IF failure[i] = "apiKey" \/ (env = "test" /\ failure[i] # "recoverable")
    THEN /\ task[i] = "rejected"
         /\ outcome.status \in {"none", "error"}
         /\ CompleteEvents = {}
    ELSE /\ task[i] \in {"validating", "resolved"}
         /\ identified[i] = <<>>
         /\ validated[i] = <<>>

C3_Witness ==
  /\ env = "production"
  /\ nChunks = 1
  /\ failure[1] = "unexpected"
  /\ task[1] = "resolved"
  /\ pc = "done"
  /\ events = <<Event("complete", 0, 0)>>

\* a job the input validation is said to refuse
Malformed(j) ==
  \/ Len(j.content) = 0
  \/ j.analysisType \notin AnalysisTypeEnum
  \/ Len(j.policies) = 0
  \/ \E k \in 1..Len(j.policies) :
       Len(j.policies[k].id) = 0 \/ Len(j.policies[k].name) = 0

\* C4: execute rejects every malformed job (empty content, a shape outside
\* the enum, no policy, a policy with an empty id or name) before the
\* chunker or the identifier is called.
C4_MalformedJobRejected ==
  Malformed(job) =>
    /\ pc \in {"start", "thrown", "done"}
    /\ ~chunkerCalled
    /\ nChunks = 0
    /\ pc = "done" => events = <<Event("error", 0, 0)>>

\* C5: at every moment of a job at most 5 chunk tasks are in flight.
C5_AtMostFiveInFlight == Cardinality(InFlight) <= 5

C5_Witness ==
  /\ nChunks = 6
  /\ Cardinality(InFlight) = 5
  /\ task[6] = "queued"
  /\ \E i \in 1..nChunks : task[i] = "validating"

\* the entities of a list that pass the workflow's validator
PassCount(entities) ==
  Cardinality({k \in 1..Len(entities) :
                 entities[k].confidence >= DefaultMinimumConfidence})

\* C6: the stats of a completed job count the chunks, the entities the
\* identifier returned over all chunks, those that passed validation over
\* all chunks and the final list, under every interleaving of the tasks.
C6_StatsAreExact ==
  outcome.status = "result" =>
    /\ outcome.stats.chunksGenerated = nChunks
    /\ outcome.stats.entitiesFound =
         SumSeq([i \in 1..nChunks |-> Len(identified[i])])
    /\ outcome.stats.entitiesValidated =
         SumSeq([i \in 1..nChunks |-> PassCount(identified[i])])
    /\ outcome.stats.entitiesDeduplicated = Len(outcome.entities)

C6_Witness ==
  /\ pc = "done"
  /\ outcome.status = "result"
  /\ nChunks = 2
  /\ outcome.stats.entitiesFound = 3
  /\ outcome.stats.entitiesValidated = 2
  /\ outcome.stats.entitiesDeduplicated = 1

\* ------------------------------------------------- C24: order of the phases
\* the steps a chunk task takes: admitted, identified or failed, validated
TaskSteps ==
  {<<"queued", "identifying">>, <<"identifying", "validating">>,
   <<"identifying", "rejected">>, <<"validating", "resolved">>}

C24_PhaseInvariant ==
  \* nothing happens before the job has been validated and chunked
  /\ pc = "start" => (~chunkerCalled /\ outcome.status = "none")
  /\ chunkerCalled => TriggerSchema(job)
  /\ ~chunkerCalled =>
       /\ nChunks = 0 /\ task = <<>>
       /\ \A k \in 1..Len(events) : events[k].type = "error"
  \* a result is the deduplication of the union, taken when every task
  \* had resolved
  /\ outcome.status = "result" =>
       /\ chunkerCalled
       /\ \A i \in 1..nChunks : task[i] = "resolved"
       /\ outcome.entities =
            removeDuplicates(Flatten(validated), job.analysisType, FALSE)

C24_PhaseStep ==
  \* every task goes through identification, then validation
  /\ \A i \in 1..nChunks :
       task'[i] # task[i] => <<task[i], task'[i]>> \in TaskSteps
  /\ \A i \in 1..nChunks :
       validated'[i] # validated[i] =>
         /\ task[i] = "validating"
         /\ validated'[i] = validateEntities(identified[i],
                                             ValidatorDefaultConfig)
  \* chunking happens once, after validation and before any task
  /\ chunkerCalled' # chunkerCalled => (pc = "chunking" /\ TriggerSchema(job))
  \* the outcome is settled once: deduplication runs at most once
  /\ outcome' # outcome => outcome.status = "none"
  /\ (outcome' # outcome /\ outcome'.status = "result") =>
       (pc = "joining" /\ \A i \in 1..nChunks : task[i] = "resolved")

\* C24: every run goes through input validation, chunking, per chunk
\* identification then validation and, only once all chunk tasks have
\* resolved, one deduplication of the union of the validated entities keyed
\* on the job's shape; no task starts before chunking is over and the
\* deduplication happens at most once.
C24_PhasesInOrder == []C24_PhaseInvariant /\ [][C24_PhaseStep]_vars

C24_Witness ==
  /\ pc = "done"
  /\ nChunks = 2
  /\ outcome.status = "result"
  /\ outcome.stats.entitiesValidated = 2
  /\ outcome.stats.entitiesDeduplicated = 1

\* --------------------------------- IdentifierTool.getFormattedPolicies
\* One IdentifierTool, and the getFormattedPolicies calls the chunk tasks of
\* its job make: every task reaches its call before or after the others
\* have resumed from `await formatPolicies(policies)`.
MaxRequests == 3

P1 == Policy(<<"p">>, <<"P">>)
Q1 == Policy(<<"q">>, <<"Q">>)
PolicyLists == {<<P1>>, <<P1, Q1>>, <<Q1, P1>>}

nonIdentifierVars == <<workflowVars, historyVars, routeVars, validatorVars,
                       deduperVars, chunkerVars, csvVars>>

InitCache ==
  /\ policyCache = <<>>
  /\ fArg \in SeqsUpTo(PolicyLists, MaxRequests) \ {<<>>}
  /\ fpc = [r \in 1..Len(fArg) |-> "call"]
  /\ fText = [r \in 1..Len(fArg) |-> <<>>]
  /\ formatCalls = <<>>
  /\ env = "test" /\ job = <<>> /\ pc = "idle" /\ nChunks = 0
  /\ task = <<>> /\ identified = <<>> /\ failure = <<>> /\ validated = <<>>
  /\ snaps = <<>> /\ rejectedBy = 0
  /\ identifiedCount = 0 /\ validatedCount = 0
  /\ events = <<>> /\ outcome = [status |-> "none"] /\ chunkerCalled = FALSE
  /\ resolveOrder = <<>>
  /\ closedAt = -1
  /\ ValidatorIdle /\ DeduperIdle /\ ChunkerIdle /\ CsvIdle

\* key, policyCache.get(key), `if (hit) return hit`, else the call of
\* formatPolicies, whose promise the function awaits
GetFormattedPolicies(r) ==
  /\ r \in 1..Len(fArg)
  /\ fpc[r] = "call"
  /\ LET key == PolicyCacheKey(fArg[r])
         hit == IF MapHas(policyCache, key) THEN MapGet(policyCache, key)
                ELSE <<>>
     IN IF hit # <<>>
        THEN /\ fText' = [fText EXCEPT ![r] = hit]
             /\ fpc' = [fpc EXCEPT ![r] = "returned"]
             /\ formatCalls' = formatCalls
        ELSE /\ formatCalls' = Append(formatCalls, fArg[r])
             /\ fpc' = [fpc EXCEPT ![r] = "awaiting"]
             /\ fText' = fText
  /\ UNCHANGED <<policyCache, fArg, nonIdentifierVars>>

\* the continuation: joined = formatted.join('\n'), policyCache.set(key,
\* joined), return joined
FormattedPoliciesResume(r) ==
  /\ r \in 1..Len(fArg)
  /\ fpc[r] = "awaiting"
  /\ LET joined == Join(formatPolicies(fArg[r]), <<"\n">>)
     IN /\ policyCache' = MapSet(policyCache, PolicyCacheKey(fArg[r]), joined)
        /\ fText' = [fText EXCEPT ![r] = joined]
  /\ fpc' = [fpc EXCEPT ![r] = "returned"]
  /\ UNCHANGED <<fArg, formatCalls, nonIdentifierVars>>

NextCache ==
  \/ \E r \in 1..Len(fArg) : GetFormattedPolicies(r)
  \/ \E r \in 1..Len(fArg) : FormattedPoliciesResume(r)

SpecCache == InitCache /\ [][NextCache]_vars

IdSet(policies) == {policies[k].id : k \in 1..Len(policies)}

\* C25: within one identifier instance formatPolicies is invoked at most
\* once per distinct set of policy ids, whatever the order of the policies
\* in the list and however many chunk tasks ask for the text concurrently.
C25_FormattedOncePerIdSet ==
  \A i, j \in 1..Len(formatCalls) :
    i # j => IdSet(formatCalls[i]) # IdSet(formatCalls[j])

\* ------------------------------------------- C26: the terminal event is last
\* C26: once 'complete' or 'error' has been delivered the sink receives
\* nothing more of that job, also when a chunk fails while other chunk
\* tasks are still running or queued.
C26_NothingAfterTerminalEvent ==
  \A k \in TerminalEvents : k = Len(events)

\* --------------------------------------- C27: completion order of the tasks
\* One job of every shape, its chunk tasks resolving in any order; the
\* order is kept as history.
InitOrder ==
  /\ env = "test"
  /\ job \in {Job(<<"x">>, t, GoodPolicies) : t \in AnalysisTypeEnum}
  /\ pc = "start"
  /\ nChunks = 0
  /\ task = <<>> /\ identified = <<>> /\ failure = <<>> /\ validated = <<>>
  /\ snaps = <<>> /\ rejectedBy = 0
  /\ identifiedCount = 0 /\ validatedCount = 0
  /\ events = <<>> /\ outcome = [status |-> "none"] /\ chunkerCalled = FALSE
  /\ resolveOrder = <<>>
  /\ closedAt = -1
  /\ IdentifierIdle
  /\ ValidatorIdle /\ DeduperIdle /\ ChunkerIdle /\ CsvIdle

\* ValidationDone, with the history of who resolved when
ValidationDoneLogged(i) ==
  /\ i \in 1..nChunks
  /\ task[i] = "validating"
  /\ LET v == executeValidationStep(identified[i])
     IN /\ validated' = [validated EXCEPT ![i] = v]
        /\ validatedCount' = AddCount(validatedCount, Len(v))
  /\ task' = [task EXCEPT ![i] = "resolved"]
  /\ resolveOrder' = Append(resolveOrder, i)
  /\ UNCHANGED <<env, job, pc, nChunks, identified, failure, snaps,
                 rejectedBy, identifiedCount, events, outcome, chunkerCalled,
                 routeVars, identifierVars, validatorVars, deduperVars,
                 chunkerVars, csvVars>>

NextOrder ==
  \/ ValidateInput
  \/ Chunking(MaxChunks)
  \/ \E i \in 1..nChunks : Admit(i)
  \/ \E i \in 1..nChunks, e \in IdentifierResults(job.analysisType) :
       IdentifyReturn(i, e)
  \/ \E i \in 1..nChunks : IdentifyFail(i, "unexpected")
  \/ \E i \in 1..nChunks : ValidationDoneLogged(i)
  \/ ExecuteJoin
  \/ ExecuteCatch
  \/ EmitComplete
  \/ EmitError

SpecOrder == InitOrder /\ [][NextOrder]_vars

\* the validated list of every chunk, from what the identifier returned
ValidatedOf(i) == validateEntities(identified[i], ValidatorDefaultConfig)

\* C27: the entities of a completed job are the deduplication of the
\* per-chunk validated lists concatenated in chunk order, whatever the
\* order in which the chunk tasks resolved; of two entities with the same
\* key and confidence the one of the earlier chunk is kept.
C27_ResultInChunkOrder ==
  outcome.status = "result" =>
    LET inChunkOrder == Flatten([i \in 1..nChunks |-> ValidatedOf(i)])
    IN /\ outcome.entities =
            removeDuplicates(inChunkOrder, job.analysisType, FALSE)
       \* per key the first of the most confident entities in chunk order
       /\ outcome.entities =
            ExpectedDedup(inChunkOrder, job.analysisType, FALSE)

C27_Witness ==
  /\ pc = "done"
  /\ job.analysisType = "UNSTRUCTURED"
  /\ resolveOrder = <<2, 1>>
  /\ identified[1] = <<UnstructuredEntity(<<"x">>, 9, <<"a">>),
                       UnstructuredEntity(<<"x">>, 4, <<"b">>)>>
  /\ identified[2] = <<UnstructuredEntity(<<"y">>, 9, <<"A">>)>>
  /\ outcome.status = "result"
  /\ outcome.entities = <<UnstructuredEntity(<<"x">>, 9, <<"a">>)>>

\* ------------------------------------------------------- C28: termination
\* C28: provided every identifier call returns or fails in the end, every
\* queued chunk task is eventually admitted by the pool, the join of the
\* tasks settles, and the job reaches its terminal outcome, a result or an
\* error, whatever the number of chunks: in the end no task is left queued
\* or running and the job is over.
C28_EveryJobTerminates ==
  <>[](/\ pc = "done"
       /\ outcome.status \in {"result", "error"}
       /\ \A i \in 1..nChunks : task[i] \in {"resolved", "rejected"})

C28_Witness ==
  /\ pc = "done"
  /\ nChunks = PoolChunks
  /\ \A i \in 1..nChunks : task[i] = "resolved"
  /\ outcome.status = "result"

\* --------------------------------------- C29: createChunks comes to an end
\* C29: createChunks terminates (returns or throws) for every shape,
\* content and option value, a columnChunkSize of zero or less on a table
\* with a non-blank header included.
\* (The loop of the model is cut off after MaxColumnPasses passes; a loop
\* whose step is 1 or more is over after at most MaxColumns passes, so only
\* a loop that makes no progress is ever cut off.)
C29_CreateChunksTerminates == <>(cpc \in {"done", "threw"})

\* ----------------------------- C30: sheet names and ranges with ':' or ','
\* spreadsheet entities whose sheet name or ranges hold the characters the
\* key is assembled with: a union reference 'A1,B1' against the two ranges
\* 'A1' and 'B1', a sheet 'a:A1' against the range 'A1:B1' of sheet 'a'
DelimiterUniverse ==
  {SpreadsheetEntity(<<"x">>, 8, <<"a">>, <<A1 \o <<",">> \o B1>>),
   SpreadsheetEntity(<<"x">>, 9, <<"a">>, <<A1, B1>>),
   SpreadsheetEntity(<<"x">>, 8, <<"a", ":">> \o A1, <<B1>>),
   SpreadsheetEntity(<<"x">>, 9, <<"a">>, <<A1 \o <<":">> \o B1>>)}

InitDelimiters ==
  /\ dType = "SPREADSHEET"
  /\ dCaseSensitive \in BOOLEAN
  /\ dEntities \in SeqsUpTo(DelimiterUniverse, MaxEntities)
  /\ dResult = <<>>
  /\ dpc = "call"
  /\ PipelineIdle /\ ValidatorIdle /\ ChunkerIdle /\ CsvIdle

SpecDelimiters == InitDelimiters /\ [][NextDeduper]_vars

\* C30: with shape SPREADSHEET two entities are merged only if they have
\* the same sheetName and the same multiset of ranges, whatever characters
\* these hold: every sheet and range multiset of the input is still there
\* in the result.
C30_MergedOnlyIfSameSheetAndRanges ==
  (dpc = "done" /\ dType = "SPREADSHEET") =>
    \A i \in 1..Len(dEntities) :
      isSpreadsheetSensitiveEntity(dEntities[i]) =>
        \E k \in 1..Len(dResult) :
          /\ dResult[k].sheetName = dEntities[i].sheetName
          /\ IsPermutation(dResult[k].ranges, dEntities[i].ranges)
====
